---- MODULE Spec2Model ----
(***************************************************************************)
(* Webhook delivery pipeline: fan-out, the Redis sorted-set job queue,     *)
(* dispatcher, worker pool, deliverer, per-subscriber circuit breaker and  *)
(* sliding-window rate limiter.                                            *)
(*                                                                         *)
(* Time is the wall clock in milliseconds (variable now).  Every Redis     *)
(* command, every record-store write and the HTTP exchange is one step of  *)
(* the worker or dispatcher that issues it; steps of different goroutines  *)
(* interleave freely and the clock may advance between any two steps.  The  *)
(* clock moves from one instant at which a time comparison of the program  *)
(* can change its outcome (a queue score, the end of a cooldown, the end   *)
(* of a limiter window) to the next such instant.                          *)
(***************************************************************************)
EXTENDS Integers, Sequences, FiniteSets, TLC

(***************************************************************************)
(* Bounds of the model                                                     *)
(***************************************************************************)
NumEvents == 2
NumBacklog == 3
NumReplicas == 2
NumWorkers == 2
MaxFaults == 1
StartTime == 100000
Horizon == 31000
ShortHorizon == 2000
FairHorizon == 500000
CBHorizon == 61000
MaxCalls == 9
MaxLimit == 2
MaxGateCalls == 4
MaxGateWaits == 2
MaxPatternLen == 4
MaxSubscriptions == 2
HubCap == 2
MaxTypeLen == 4

(***************************************************************************)
(* Program constants                                                       *)
(***************************************************************************)
failureThreshold == 5
cooldownPeriod == 30
BreakerDelay == 5000
LimiterDelay == 1000
window == 1000
MaxRetries == 5
batchSize == 10

StateClosed == "closed"
StateOpen == "open"
StateHalfOpen == "half-open"

Events == 1 .. NumBacklog
Replicas == 1 .. NumReplicas
Workers == Replicas \X (1 .. NumWorkers)
Subscribers == {"A"}
JitterSet == {0, 999}
NonceSet == {0, 1}
Pairs == Events \X Subscribers
PairOf(job) == <<job.event_id, job.subscriber_id>>
MemberPair(member) == <<member[1], member[2]>>

(***************************************************************************)
(* Clock conversions: time.Now().Unix(), .UnixMilli(), .UnixMicro()        *)
(***************************************************************************)
Unix(t) == t \div 1000
UnixMilli(t) == t
UnixMicro(t) == t * 1000

(***************************************************************************)
(* Record store content read by the pipeline                               *)
(***************************************************************************)
SubscriberRow(s, limit) ==
    [id |-> s, endpoint_url |-> <<"http", s>>, secret_key |-> <<"secret", s>>,
     is_active |-> TRUE, rate_limit_per_second |-> limit]

Subscriptions == {[subscriber_id |-> "A", event_type |-> <<"order", ".", "*">>, is_active |-> TRUE]}

\* An event as CreateEvent returned it; the payload is raw JSON, a sequence of
\* tokens in which " " is insignificant whitespace and "<" a character of a
\* string value.
Event(e) ==
    [id |-> e, event_type |-> <<"order", ".", "created">>,
     payload |-> IF e = 1 THEN <<"{", "}">> ELSE <<"{", " ", "<", "}">>]

\* Strings of the resolver are sequences of characters; a word stands for its
\* characters, more than one and none of them ".", "*", "_" or "%".
Words == {"order", "payment", "created", "completed"}
\* REPLACE(s, '.*', '.%'): every occurrence, left to right.
RECURSIVE Replace(_)
Replace(s) ==
    IF Len(s) < 2 THEN s
    ELSE IF s[1] = "." /\ s[2] = "*" THEN <<".", "%">> \o Replace(SubSeq(s, 3, Len(s)))
    ELSE <<s[1]>> \o Replace(Tail(s))

\* s LIKE pat: % matches any run of characters, _ any one character.
RECURSIVE Like(_, _)
Like(s, pat) ==
    IF pat = <<>> THEN s = <<>>
    ELSE IF Head(pat) = "%"
         THEN Like(s, Tail(pat)) \/ (s # <<>> /\ Like(Tail(s), pat))
    ELSE IF Head(pat) = "_"
         THEN s # <<>> /\ Head(s) \notin Words /\ Like(Tail(s), Tail(pat))
    ELSE s # <<>> /\ Head(s) = Head(pat) /\ Like(Tail(s), Tail(pat))

\* The WHERE clause of FindMatchingSubscribers on one subscription pattern.
PatternMatches(pattern, eventType) ==
    \/ pattern = eventType
    \/ pattern = <<"*">>
    \/ /\ Like(pattern, <<"%", ".", "*">>)
       /\ Like(eventType, Replace(pattern))

\* Variant: the query without its test of sub.is_active.
SubscriptionCountsAlways(sub) == TRUE

\* WHERE ... AND sub.is_active = true
SubscriptionCounts(sub) == sub.is_active

\* The query of FindMatchingSubscribers over a subscribers table and a
\* subscriptions table: SELECT DISTINCT of the subscriber's columns over the
\* join, so one row for a subscriber however many of its subscriptions match.
FindMatchingIn(subscribers, subscriptions, eventType) ==
    {s \in subscribers :
        /\ s.is_active
        /\ \E sub \in subscriptions :
              /\ sub.subscriber_id = s.id
              /\ SubscriptionCounts(sub)
              /\ PatternMatches(sub.event_type, eventType)}

\* The query over the subscribers of the pipeline and a subscriptions table.
FindMatching(subscriptions, eventType) ==
    {s.id : s \in FindMatchingIn({SubscriberRow(x, 0) : x \in Subscribers},
                                 subscriptions, eventType)}

FindMatchingSubscribers(eventType) == FindMatching(Subscriptions, eventType)

(***************************************************************************)
(* Delivery jobs and their JSON encoding                                   *)
(***************************************************************************)
\* json.Marshal of a json.RawMessage compacts it: insignificant whitespace
\* goes, and the characters <, >, & of strings are written as \u escapes.
EscapeHTML(tok) == IF tok = "<" THEN "u003c" ELSE tok
Compact(p) ==
    LET kept == SelectSeq(p, LAMBDA tok : tok # " ")
    IN [i \in DOMAIN kept |-> EscapeHTML(kept[i])]

\* json.Marshal(job): the member string stored in the sorted set, the values
\* of the fields in the order of the struct.
Marshal(job) ==
    <<job.event_id, job.subscriber_id, job.endpoint_url, Compact(job.payload),
      job.secret_key, job.event_type, job.attempt, job.max_retries,
      job.rate_limit_per_second>>

\* json.Unmarshal(member, &job)
Unmarshal(member) ==
    [event_id |-> member[1],
     subscriber_id |-> member[2],
     endpoint_url |-> member[3],
     payload |-> member[4],
     secret_key |-> member[5],
     event_type |-> member[6],
     attempt |-> member[7],
     max_retries |-> member[8],
     rate_limit_per_second |-> member[9]]

\* The rate limit FanOut copies from the subscriber row into the job.
RateLimitOf(sub) == sub.rate_limit_per_second

\* The job built by FanOut for subscriber row sub.
NewJob(event, sub) ==
    [event_id |-> event.id,
     subscriber_id |-> sub.id,
     endpoint_url |-> sub.endpoint_url,
     payload |-> event.payload,
     secret_key |-> sub.secret_key,
     event_type |-> event.event_type,
     attempt |-> 1,
     max_retries |-> MaxRetries,
     rate_limit_per_second |-> RateLimitOf(sub)]

\* A job built by a caller of Pool.Submit or Deliver other than the pipeline,
\* which allows it a single attempt.  Such callers write the payload as a
\* compact JSON literal.
SingleAttempt == 1
DirectJob(event, sub) ==
    [NewJob(event, sub) EXCEPT !.max_retries = SingleAttempt,
                               !.payload = Compact(event.payload)]

\* Variant: the retry job does not carry the rate limit.
RetryJobUnlimited(job) == [job EXCEPT !.attempt = @ + 1, !.rate_limit_per_second = 0]

\* The job built by scheduleRetry.
RetryJob(job) ==
    [event_id |-> job.event_id,
     subscriber_id |-> job.subscriber_id,
     endpoint_url |-> job.endpoint_url,
     payload |-> job.payload,
     secret_key |-> job.secret_key,
     event_type |-> job.event_type,
     attempt |-> job.attempt + 1,
     max_retries |-> job.max_retries,
     rate_limit_per_second |-> job.rate_limit_per_second]

\* Variant: the re-queued job counts the refusal as an attempt.
RequeueJobCounted(job) == RetryJob(job)

\* The job re-queued by requeueWithDelay.
RequeueJob(job) == job

\* math.Pow(2, attempt) seconds, in milliseconds
RECURSIVE Pow2(_)
Pow2(n) == IF n <= 0 THEN 1 ELSE 2 * Pow2(n - 1)
\* Variant: the delay grows by 2 s per attempt.
BaseDelayLinear(attempt) == 2 * attempt * 1000

BaseDelay(attempt) == Pow2(attempt) * 1000

(***************************************************************************)
(* The signed HTTP request                                                 *)
(***************************************************************************)
\* hmac.New(sha256.New, key), mac.Write(data), mac.Sum(nil), hex.EncodeToString:
\* the digest is a term over the key and the bytes written, so two digests are
\* equal exactly when key and bytes are.
HmacNew(key) == [key |-> key, written |-> <<>>]
HmacWrite(mac, data) == [mac EXCEPT !.written = @ \o data]
HmacSum(mac) == <<"hmac-sha256", mac.key, mac.written>>
EncodeToString(digest) == <<"hex", digest>>

\* Variant: the payload is used as the key and the secret is signed.
computeHMACSwapped(payload, secret) ==
    EncodeToString(HmacSum(HmacWrite(HmacNew(payload), secret)))

computeHMAC(payload, secret) ==
    EncodeToString(HmacSum(HmacWrite(HmacNew(secret), payload)))

\* fmt.Sprintf("%d", n) for n >= 0: the decimal digits, most significant first.
RECURSIVE Itoa(_)
Itoa(n) == IF n < 10 THEN <<n>> ELSE Itoa(n \div 10) \o <<n % 10>>

\* The number a receiver reads from decimal digits.
RECURSIVE Atoi(_)
Atoi(digits) ==
    IF digits = <<>> THEN 0
    ELSE 10 * Atoi(SubSeq(digits, 1, Len(digits) - 1)) + digits[Len(digits)]

NoRequest == [method |-> ""]

\* The request Deliver builds for a job.
Request(job) ==
    [method |-> "POST",
     url |-> job.endpoint_url,
     body |-> job.payload,
     content_type |-> "application/json",
     signature |-> computeHMAC(job.payload, job.secret_key),
     event |-> job.event_type,
     id |-> job.event_id,
     attempt |-> Itoa(job.attempt)]

(***************************************************************************)
(* Redis sorted set commands on the delivery queue                         *)
(***************************************************************************)
\* Variant: the add leaves the set as it is.
ZAddDropped(q, member, score) == q

ZAdd(q, member, score) ==
    [m \in DOMAIN q \cup {member} |-> IF m = member THEN score ELSE q[m]]

\* Variant: every remove reports that it removed the member.
ZRemAlways(q, member) == TRUE

ZRemResult(q, member) == member \in DOMAIN q

\* Variant: the remove leaves the member in the set.
ZRemKept(q, member) == q

ZRem(q, member) == [m \in DOMAIN q \ {member} |-> q[m]]

\* Order of members with equal score: bytewise on the JSON text, which begins
\* with event_id, then subscriber_id; attempt decides within one pair.
MemberLess(a, b) ==
    \/ a[1] < b[1]
    \/ /\ a[1] = b[1]
       /\ a[7] < b[7]

EntryLess(q, a, b) == q[a] < q[b] \/ (q[a] = q[b] /\ MemberLess(a, b))

RECURSIVE SortMembers(_, _)
SortMembers(q, S) ==
    IF S = {} THEN <<>>
    ELSE LET first == CHOOSE a \in S : \A b \in S \ {a} : EntryLess(q, a, b)
         IN <<first>> \o SortMembers(q, S \ {first})

Min(a, b) == IF a < b THEN a ELSE b

\* ZRANGEBYSCORE key -inf max LIMIT 0 count
ZRangeByScore(q, max, count) ==
    LET due == SortMembers(q, {m \in DOMAIN q : q[m] <= max})
    IN SubSeq(due, 1, Min(count, Len(due)))

(***************************************************************************)
(* Circuit-breaker hash commands                                           *)
(***************************************************************************)
\* Variant: one key for the hashes of all subscribers.
cbKeyShared(subscriberID) == <<"cb">>

\* fmt.Sprintf("cb:%s", subscriberID)
cbKey(subscriberID) == <<"cb", subscriberID>>

NoHash == [present |-> FALSE, state |-> "", failures |-> 0, last_failed_at |-> 0]

\* HSet key state <state>
HSetState(hash, state) == [hash EXCEPT !.present = TRUE, !.state = state]

\* Variant: the state is reset, the counter is not.
HSetClosedKeepsCount(hash) == HSetState(hash, StateClosed)

\* HSet key state closed failures 0
HSetClosed(hash) == [hash EXCEPT !.present = TRUE, !.state = StateClosed, !.failures = 0]

\* HIncrBy key failures 1
HIncrBy(hash) == [hash EXCEPT !.present = TRUE, !.failures = @ + 1]

\* HSet key last_failed_at <unix seconds of t>
HSetLastFailed(hash, t) == [hash EXCEPT !.present = TRUE, !.last_failed_at = Unix(t)]

\* Variant: an open circuit never admits a probe.
AllowDecisionNeverProbes(data, t) ==
    IF ~data.present THEN "admit"
    ELSE IF data.state = StateOpen THEN "refuse"
    ELSE "admit"

\* Variant: the probe is admitted only after more than the cooldown.
AllowDecisionLateProbe(data, t) ==
    IF ~data.present THEN "admit"
    ELSE IF data.state = StateOpen
         THEN IF Unix(t) - data.last_failed_at > cooldownPeriod THEN "probe" ELSE "refuse"
         ELSE "admit"

\* The decision of AllowRequest on the hash it read at time t:
\* "admit", "probe" (open, cooldown elapsed) or "refuse".
AllowDecision(data, t) ==
    IF ~data.present THEN "admit"
    ELSE IF data.state = StateOpen
         THEN IF Unix(t) - data.last_failed_at >= cooldownPeriod THEN "probe" ELSE "refuse"
         ELSE "admit"

\* The state string AllowRequest returns with that decision.
AllowState(data, t) ==
    IF ~data.present THEN StateClosed
    ELSE IF data.state = StateOpen
         THEN IF AllowDecision(data, t) = "probe" THEN StateHalfOpen ELSE StateOpen
         ELSE IF data.state = StateHalfOpen THEN StateHalfOpen ELSE StateClosed

\* Variant: the circuit opens one failure later.
FailureBranchAboveThreshold(state, failures) ==
    IF state = StateHalfOpen THEN "setopen"
    ELSE IF failures > failureThreshold THEN "setopen"
    ELSE IF state = "" THEN "setclosed"
    ELSE "failure"

\* Variant: a failed probe is counted like any other failure.
FailureBranchThresholdOnly(state, failures) ==
    IF failures >= failureThreshold THEN "setopen"
    ELSE IF state = "" THEN "setclosed"
    ELSE "failure"

\* The branch RecordFailure takes on the state it read and the counter it got.
FailureBranch(state, failures) ==
    IF state = StateHalfOpen THEN "setopen"
    ELSE IF failures >= failureThreshold THEN "setopen"
    ELSE IF state = "" THEN "setclosed"
    ELSE "failure"

\* A whole call of AllowRequest, RecordSuccess, RecordFailure with no other
\* command in between: the hash it leaves.
AllowRequestCall(hash, t) ==
    IF AllowDecision(hash, t) = "probe" THEN HSetState(hash, StateHalfOpen) ELSE hash

RecordSuccessCall(hash) == HSetClosed(hash)

RecordFailureCall(hash, t) ==
    LET counted == HSetLastFailed(HIncrBy(hash), t)
        branch == FailureBranch(counted.state, counted.failures)
    IN IF branch = "setopen" THEN HSetState(counted, StateOpen)
       ELSE IF branch = "setclosed" THEN HSetState(counted, StateClosed)
       ELSE counted

\* The hash left by k failed deliveries made one after the other at time t.
RECURSIVE AfterFailures(_, _)
AfterFailures(k, t) ==
    IF k = 0 THEN NoHash ELSE RecordFailureCall(AfterFailures(k - 1, t), t)

(***************************************************************************)
(* Rate limiter: slidingWindowScript on the set of members of one key; a   *)
(* member is <<now, nonce>> and its score is now.                          *)
(***************************************************************************)
\* fmt.Sprintf("rl:%s", subscriberID)
rlKey(subscriberID) == <<"rl", subscriberID>>

Evicted(set, t) == {x \in set : x[1] > t - window}

\* Variant: only a negative limit means no rate limiting.
BypassNegative(limit) == limit < 0

\* RateLimiter.Allow returns true without a command when limit <= 0.
Bypass(limit) == limit <= 0

ScriptAdmits(set, t, limit) == Cardinality(Evicted(set, t)) < limit

ScriptResult(set, t, limit, nonce) ==
    IF ScriptAdmits(set, t, limit) THEN Evicted(set, t) \cup {<<t, nonce>>}
    ELSE Evicted(set, t)

(***************************************************************************)
(* State                                                                   *)
(***************************************************************************)
VARIABLES
    cfg,        \* the deployment and workload of the run: replicas started,
                \* workers per pool, events published, end of the observed time
    now,        \* wall clock, ms
    fanned,     \* events for which FanOut has run
    queue,      \* sorted set delivery_queue: member -> score
    cb,         \* hashes of the KV store, by key cb:<subscriber>
    rl,         \* limiter sorted sets of the KV store, by key rl:<subscriber>
    attempts,   \* table delivery_attempts: per (event, subscriber) its rows in insertion order
    dlq,        \* table dead_letter_queue: per (event, subscriber) its rows in insertion order
    jobs,       \* per replica: the pool's buffered channel
    dpc,        \* per replica: dispatcher position
    dbatch,     \* per replica: ZRangeByScore results not yet iterated
    dcur,       \* per replica: member being handled by the loop body
    wpc,        \* per worker: position in Deliver
    wjob,       \* per worker: the job argument of Deliver
    wloc,       \* per worker: locals of Deliver and its callees
    faults,     \* store errors that may still be injected
    calls,      \* circuit-breaker calls made by a lone caller: how many, how many
                \* record_failure since the circuit was last closed with no failure
                \* (-1: it has not been yet), and the last two calls
    handed,     \* jobs a caller other than the dispatcher has passed to Pool.Submit
    gate,       \* per caller of RateLimiter.Allow: the call it is in, between
                \* reading the clock and running the script
    hist,       \* admission calls made against the KV store: how many, the last
                \* one, and per subscriber the admissions of the last second
    life,       \* per replica: the process from start to shutdown (the context,
                \* the pool's channel, main's position, a panic)
    hub,        \* the notifier: its broadcast channel, and per (event, subscriber)
                \* the types of the events offered to it, in order
    match,      \* a resolver query: the subscription pattern stored, the event
                \* type asked for, and whether the subscriber was returned
    fan         \* an ingestion request: the subscribers and subscriptions
                \* tables, the events table, and what FanOut returned for it

vars == <<cfg, now, fanned, queue, cb, rl, attempts, dlq, jobs, dpc, dbatch, dcur,
          wpc, wjob, wloc, faults, calls, handed, gate, hist, life, hub, match, fan>>

NoJob == [event_id |-> 0]
NoMember == <<>>
NoLoc == [delay |-> 0, failures |-> 0, state |-> "", status |-> 0, err |-> FALSE,
          request |-> NoRequest]
NoCall == [subscriber_id |-> ""]
NoHist == [made |-> 0]
NoMatch == [pattern |-> <<>>, event_type |-> <<>>, asked |-> FALSE, found |-> FALSE]
NoFan == [subscribers |-> {}, subscriptions |-> {}, events |-> {}, step |-> "posted",
          failed |-> "none", returned |-> FALSE, count |-> 0, err |-> FALSE,
          status |-> 0, deliveries_queued |-> 0]
Running == [cancelled |-> FALSE, closed |-> FALSE, main |-> "serving", panicked |-> FALSE]
NoHub == [broadcast |-> <<>>, offered |-> [p \in Pairs |-> <<>>]]

\* The state after construction of a deployment c: nothing published, queued or
\* recorded, every goroutine at its starting point.
Idle(c, budget) ==
    /\ cfg = c
    /\ now = StartTime
    /\ fanned = {}
    /\ queue = <<>>
    /\ attempts = [p \in Pairs |-> <<>>]
    /\ dlq = [p \in Pairs |-> <<>>]
    /\ jobs = [r \in Replicas |-> <<>>]
    /\ dpc = [r \in Replicas |-> "wait"]
    /\ dbatch = [r \in Replicas |-> <<>>]
    /\ dcur = [r \in Replicas |-> NoMember]
    /\ wpc = [w \in Workers |-> "idle"]
    /\ wjob = [w \in Workers |-> NoJob]
    /\ wloc = [w \in Workers |-> NoLoc]
    /\ faults = budget
    /\ handed = {}
    /\ gate = [w \in Workers |-> NoCall]
    /\ life = [r \in Replicas |-> Running]
    /\ hub = NoHub

\* That state against a KV store that holds the breaker hash and the limiter
\* set left by earlier deliveries.
Preset(c, hash, limiter, budget) ==
    /\ Idle(c, budget)
    /\ cb = [k \in {cbKey(s) : s \in Subscribers} |-> hash]
    /\ rl = [k \in {rlKey(s) : s \in Subscribers} |-> limiter]
    /\ calls = [made |-> 0, streak |-> IF hash = NoHash THEN 0 ELSE -1, recent |-> <<>>]
    /\ hist = NoHist

\* That state with no resolver query under observation.
Start(c, hash, limiter, budget) ==
    /\ Preset(c, hash, limiter, budget)
    /\ match = NoMatch
    /\ fan = NoFan

\* What an endpoint can answer: an HTTP status, or a transport error (no status).
Answer(status) == [status |-> status, err |-> FALSE]
TransportError == [status |-> 0, err |-> TRUE]
Responses == {Answer(200), Answer(304), Answer(500), TransportError}

\* One replica with one worker delivers one event over the whole horizon.
Lifecycle == [stops |-> FALSE, slow |-> FALSE, drain |-> FALSE, replicas |-> 1, workers |-> 1, events |-> 1, rate_limit |-> 1,
              answers |-> {Answer(200), Answer(500)}, direct |-> 0,
              until |-> StartTime + Horizon]
\* One replica with all its workers delivers all events at once to a
\* subscriber without rate limit.
Burst == [stops |-> FALSE, slow |-> FALSE, drain |-> TRUE, replicas |-> 1, workers |-> NumWorkers, events |-> NumEvents, rate_limit |-> 0,
          answers |-> {Answer(200), Answer(500)}, direct |-> 0,
          until |-> StartTime + ShortHorizon]
\* All replicas poll the same queue.
Replicated == [stops |-> FALSE, slow |-> FALSE, drain |-> FALSE, replicas |-> NumReplicas, workers |-> 1, events |-> 1, rate_limit |-> 1,
               answers |-> {Answer(200), Answer(304), TransportError}, direct |-> 0,
               until |-> StartTime + ShortHorizon]

\* A caller hands jobs straight to the pool of one replica, each allowed a
\* single attempt; nothing is published.
Direct == [stops |-> FALSE, slow |-> FALSE, drain |-> TRUE, replicas |-> 1, workers |-> NumWorkers, events |-> 0, rate_limit |-> 0,
           answers |-> {Answer(200), Answer(500)}, direct |-> NumEvents,
           until |-> StartTime + ShortHorizon]

\* Breaker hashes left by earlier failed deliveries: none, four, five just now,
\* five a cooldown ago.
EarlierHashes ==
    {NoHash,
     AfterFailures(failureThreshold - 1, StartTime),
     AfterFailures(failureThreshold, StartTime),
     AfterFailures(failureThreshold, StartTime - cooldownPeriod * 1000)}

\* Limiter sets left by earlier deliveries: empty, or one admission just now.
EarlierLimiters == {{}, {<<StartTime, 0>>}}

Init ==
    \E c \in {Lifecycle, Burst, Replicated, Direct}, hash \in EarlierHashes,
       limiter \in EarlierLimiters :
        Start(c, hash, limiter, IF c = Lifecycle THEN MaxFaults ELSE 0)

\* Outcomes of a call to a store: TRUE = served, FALSE = error returned.
Served == IF faults > 0 THEN {TRUE, FALSE} ELSE {TRUE}
Count(ok) == IF ok THEN faults ELSE faults - 1

\* The process of replica r has not died of a panic.
Alive(r) == ~life[r].panicked

\* Variant: the client runs the command whatever the state of the context.
ServedToAnyway(r) == Served

\* Outcomes of a store call made by replica r with its ambient context: once
\* the context is cancelled the client returns the context's error without
\* running the command.
ServedTo(r) == IF life[r].cancelled THEN {FALSE} ELSE Served
CountFor(r, ok) == IF life[r].cancelled THEN faults ELSE Count(ok)

(***************************************************************************)
(* Clock                                                                   *)
(***************************************************************************)
Deadlines ==
    {queue[m] \div 1000 : m \in DOMAIN queue}
    \cup {(cb[cbKey(s)].last_failed_at + cooldownPeriod) * 1000 :
             s \in {x \in Subscribers : cb[cbKey(x)].state = StateOpen}}
    \cup UNION {{x[1] + window : x \in rl[rlKey(s)]} : s \in Subscribers}

NextDeadline(t) ==
    /\ t \in Deadlines
    /\ t > now
    /\ t <= cfg.until
    /\ \A u \in Deadlines : u > now => t <= u

Tick ==
    /\ \E t \in Deadlines : NextDeadline(t) /\ now' = t
    /\ UNCHANGED <<cfg, fan, life, hub, match, handed, gate, hist, fanned, queue, cb, rl, attempts, dlq, jobs, dpc, dbatch, dcur,
                   wpc, wjob, wloc, faults, calls>>

(***************************************************************************)
(* FanOut                                                                  *)
(***************************************************************************)
RECURSIVE ZAddAll(_, _, _)
ZAddAll(q, S, score) ==
    IF S = {} THEN q
    ELSE LET m == CHOOSE x \in S : TRUE
         IN ZAddAll(ZAdd(q, m, score), S \ {m}, score)

\* The members FanOut puts in its pipeline for an event and the rows the
\* query returned.
Batch(event, subscribers) == {Marshal(NewJob(event, sub)) : sub \in subscribers}

\* Variant: a failed Exec reported with the number of commands that ran.
FailedCountApplied(applied) == Cardinality(applied)

\* if err != nil { return 0, fmt.Errorf("queuing deliveries to redis: %w", err) }
FailedCount(applied) == 0

\* FanOutEngine.FanOut for an event, the rows the query returns (found: the
\* query succeeded) and the outcome of pipe.Exec (queued: it succeeded;
\* applied: the commands of the pipeline that ran although it failed), on the
\* job queue q at time t: the queue after it, and the count and error returned.
FanOutResult(event, subscribers, found, queued, applied, q, t) ==
    IF ~found THEN [queue |-> q, count |-> 0, err |-> TRUE]
    ELSE IF subscribers = {} THEN [queue |-> q, count |-> 0, err |-> FALSE]
    ELSE IF queued
         THEN [queue |-> ZAddAll(q, Batch(event, subscribers), UnixMicro(t)),
               count |-> Cardinality(subscribers), err |-> FALSE]
         ELSE [queue |-> ZAddAll(q, applied, UnixMicro(t)),
               count |-> FailedCount(applied), err |-> TRUE]

FanOut(e) ==
    /\ e <= cfg.events
    /\ e \notin fanned
    /\ fanned' = fanned \cup {e}
    /\ LET subscribers == {SubscriberRow(s, cfg.rate_limit) :
                              s \in FindMatchingSubscribers(Event(e).event_type)}
       IN \E found \in Served, queued \in Served, applied \in SUBSET Batch(Event(e), subscribers) :
             /\ faults' = IF found /\ queued THEN faults ELSE faults - 1
             /\ (~found) => queued
             /\ (~found \/ queued) => applied = {}
             /\ queue' = FanOutResult(Event(e), subscribers, found, queued, applied,
                                      queue, now).queue
    /\ UNCHANGED <<cfg, fan, life, hub, match, handed, gate, hist, calls, now, cb, rl, attempts, dlq, jobs, dpc, dbatch, dcur, wpc, wjob, wloc>>

(***************************************************************************)
(* Dispatcher (one per replica)                                            *)
(***************************************************************************)
\* The loop of poll moves on to the next fetched member, or poll returns.
Continue(r) ==
    /\ dbatch' = [dbatch EXCEPT ![r] = Tail(@)]
    /\ dpc' = [dpc EXCEPT ![r] = IF Tail(dbatch[r]) = <<>> THEN "wait" ELSE "zrem"]

\* ticker.C fires: poll fetches the due members.
Poll(r) ==
    /\ Alive(r)
    /\ r <= cfg.replicas
    /\ dpc[r] = "wait"
    /\ \E ok \in ServedTo(r) :
          /\ faults' = CountFor(r, ok)
          /\ LET results == ZRangeByScore(queue, UnixMicro(now), batchSize)
             IN IF ok /\ Len(results) > 0
                THEN /\ dbatch' = [dbatch EXCEPT ![r] = results]
                     /\ dpc' = [dpc EXCEPT ![r] = "zrem"]
                ELSE UNCHANGED <<dbatch, dpc>>
    /\ UNCHANGED <<cfg, fan, life, hub, match, handed, gate, hist, calls, now, fanned, queue, cb, rl, attempts, dlq, jobs, dcur, wpc, wjob, wloc>>

\* ZRem of the next fetched member decides who owns it.
Claim(r) ==
    /\ Alive(r)
    /\ dpc[r] = "zrem"
    /\ LET member == Head(dbatch[r])
       IN \E ok \in ServedTo(r) :
             /\ faults' = CountFor(r, ok)
             /\ IF ok /\ ZRemResult(queue, member)
                THEN /\ queue' = ZRem(queue, member)
                     /\ dcur' = [dcur EXCEPT ![r] = member]
                     /\ dpc' = [dpc EXCEPT ![r] = "submit"]
                     /\ UNCHANGED dbatch
                ELSE /\ Continue(r)
                     /\ UNCHANGED <<queue, dcur>>
    /\ UNCHANGED <<cfg, fan, life, hub, match, handed, gate, hist, calls, now, fanned, cb, rl, attempts, dlq, jobs, wpc, wjob, wloc>>

\* Variant: a channel with room for one job more.
CapacityBeyond(numWorkers) == numWorkers * 2 + 1

\* NewPool: make(chan engine.DeliveryJob, numWorkers*2).
Capacity(numWorkers) == numWorkers * 2

\* Pool.Submit called with a job by a caller other than the dispatcher.
SubmitDirect(r, e) ==
    /\ Alive(r)
    /\ ~life[r].closed
    /\ r <= cfg.replicas
    /\ e <= cfg.direct
    /\ e \notin handed
    /\ Len(jobs[r]) < Capacity(cfg.workers)
    /\ jobs' = [jobs EXCEPT ![r] = Append(@, DirectJob(Event(e), SubscriberRow("A", cfg.rate_limit)))]
    /\ handed' = handed \cup {e}
    /\ UNCHANGED <<cfg, fan, life, hub, match, gate, hist, calls, now, fanned, queue, cb, rl, attempts, dlq, dpc, dbatch,
                   dcur, wpc, wjob, wloc, faults>>

\* Pool.Submit: send on the buffered channel of capacity numWorkers*2.  The
\* send waits for room; on a closed channel, also when the close comes while it
\* waits, it panics, and the panic ends the process.
Submit(r) ==
    /\ Alive(r)
    /\ dpc[r] = "submit"
    /\ IF life[r].closed
       THEN /\ life' = [life EXCEPT ![r].panicked = TRUE]
            /\ UNCHANGED <<jobs, dcur, dbatch, dpc>>
       ELSE /\ Len(jobs[r]) < Capacity(cfg.workers)
            /\ jobs' = [jobs EXCEPT ![r] = Append(@, Unmarshal(dcur[r]))]
            /\ dcur' = [dcur EXCEPT ![r] = NoMember]
            /\ Continue(r)
            /\ UNCHANGED life
    /\ UNCHANGED <<cfg, fan, hub, match, handed, gate, hist, calls, now, fanned, queue, cb, rl, attempts, dlq, wpc, wjob, wloc, faults>>

(***************************************************************************)
(* Pool worker and Deliver                                                 *)
(***************************************************************************)
Goto(w, label) == wpc' = [wpc EXCEPT ![w] = label]

\* Deliver returns: the worker is back at the channel receive.
Return(w) ==
    /\ wpc' = [wpc EXCEPT ![w] = "idle"]
    /\ wjob' = [wjob EXCEPT ![w] = NoJob]
    /\ wloc' = [wloc EXCEPT ![w] = NoLoc]

\* Variant: a received job stays in the channel.
ChanRestKept(ch) == ch

\* What a receive leaves in the channel.
ChanRest(ch) == Tail(ch)

\* for job := range p.jobs, then the select on ctx.Done(): with the context
\* cancelled the worker returns and the job it received is gone.
Receive(w) ==
    /\ Alive(w[1])
    /\ w[2] <= cfg.workers
    /\ wpc[w] = "idle"
    /\ jobs[w[1]] # <<>>
    /\ jobs' = [jobs EXCEPT ![w[1]] = ChanRest(@)]
    /\ IF life[w[1]].cancelled
       THEN Goto(w, "exited") /\ UNCHANGED wjob
       ELSE Goto(w, "allow") /\ wjob' = [wjob EXCEPT ![w] = Head(jobs[w[1]])]
    /\ UNCHANGED <<cfg, fan, life, hub, match, handed, gate, hist, calls, now, fanned, queue, cb, rl, attempts, dlq, dpc, dbatch, dcur, wloc, faults>>

\* The range loop ends: the channel is closed and empty.
Exit(w) ==
    /\ Alive(w[1])
    /\ w[2] <= cfg.workers
    /\ wpc[w] = "idle"
    /\ jobs[w[1]] = <<>>
    /\ life[w[1]].closed
    /\ Goto(w, "exited")
    /\ UNCHANGED <<cfg, fan, life, hub, match, handed, gate, hist, calls, now, fanned, queue, cb, rl, attempts, dlq, jobs, dpc, dbatch, dcur, wjob, wloc, faults>>

\* Variant: a failed read of the hash refuses the request.
ReadDecisionFailClosed(ok, data, t) == IF ok THEN AllowDecision(data, t) ELSE "refuse"

\* AllowRequest on the outcome of HGetAll: an error is treated like no hash.
ReadDecision(ok, data, t) == IF ok THEN AllowDecision(data, t) ELSE "admit"

\* AllowRequest: HGetAll and the switch on the state.
AllowRequest(w) ==
    /\ Alive(w[1])
    /\ wpc[w] = "allow"
    /\ \E ok \in ServedTo(w[1]) :
          /\ faults' = CountFor(w[1], ok)
          /\ LET decision == ReadDecision(ok, cb[cbKey(wjob[w].subscriber_id)], now)
             IN CASE decision = "admit" -> Goto(w, "limit") /\ UNCHANGED wloc
                  [] decision = "probe" -> Goto(w, "halfopen") /\ UNCHANGED wloc
                  [] decision = "refuse" ->
                        /\ Goto(w, "requeue")
                        /\ wloc' = [wloc EXCEPT ![w].delay = BreakerDelay]
    /\ UNCHANGED <<cfg, fan, life, hub, match, handed, gate, hist, calls, now, fanned, queue, cb, rl, attempts, dlq, jobs, dpc, dbatch, dcur, wjob>>

\* AllowRequest: HSet state half-open, then admit.
SetHalfOpen(w) ==
    /\ Alive(w[1])
    /\ wpc[w] = "halfopen"
    /\ \E ok \in ServedTo(w[1]) :
          /\ faults' = CountFor(w[1], ok)
          /\ cb' = IF ok THEN [cb EXCEPT ![cbKey(wjob[w].subscriber_id)] = HSetState(@, StateHalfOpen)]
                   ELSE cb
    /\ Goto(w, "limit")
    /\ UNCHANGED <<cfg, fan, life, hub, match, handed, gate, hist, calls, now, fanned, queue, rl, attempts, dlq, jobs, dpc, dbatch, dcur, wjob, wloc>>

\* RateLimiter.Allow
Allow(w) ==
    /\ Alive(w[1])
    /\ wpc[w] = "limit"
    /\ LET s == wjob[w].subscriber_id
           limit == wjob[w].rate_limit_per_second
       IN IF Bypass(limit)
          THEN /\ Goto(w, "post")
               /\ UNCHANGED <<rl, wloc, faults>>
          ELSE \E ok \in ServedTo(w[1]), nonce \in NonceSet :
                  /\ faults' = CountFor(w[1], ok)
                  /\ rl' = IF ok THEN [rl EXCEPT ![rlKey(s)] = ScriptResult(@, UnixMilli(now), limit, nonce)]
                           ELSE rl
                  /\ IF ~ok \/ ScriptAdmits(rl[rlKey(s)], UnixMilli(now), limit)
                     THEN Goto(w, "post") /\ UNCHANGED wloc
                     ELSE /\ Goto(w, "requeue")
                          /\ wloc' = [wloc EXCEPT ![w].delay = LimiterDelay]
    /\ UNCHANGED <<cfg, fan, life, hub, match, handed, gate, hist, calls, now, fanned, queue, cb, attempts, dlq, jobs, dpc, dbatch, dcur, wjob>>

\* requeueWithDelay
requeueWithDelay(w) ==
    /\ Alive(w[1])
    /\ wpc[w] = "requeue"
    /\ \E ok \in ServedTo(w[1]) :
          /\ faults' = CountFor(w[1], ok)
          /\ queue' = IF ok
                      THEN ZAdd(queue, Marshal(RequeueJob(wjob[w])),
                                UnixMicro(now + wloc[w].delay))
                      ELSE queue
    /\ Return(w)
    /\ UNCHANGED <<cfg, fan, life, hub, match, handed, gate, hist, calls, now, fanned, cb, rl, attempts, dlq, jobs, dpc, dbatch, dcur>>

IsSuccess(resp) == ~resp.err /\ resp.status >= 200 /\ resp.status < 300

\* What httpClient.Do returns for a request made with the context of replica
\* r: what the endpoint answers, or the context's error once it is cancelled.
Outcomes(r) == IF life[r].cancelled THEN {TransportError} ELSE cfg.answers

\* httpClient.Do with an endpoint that answers at once: the POST is sent and
\* answered (or fails).
Post(w) ==
    /\ Alive(w[1])
    /\ wpc[w] = "post"
    /\ ~cfg.slow
    /\ \E resp \in Outcomes(w[1]) :
          /\ wloc' = [wloc EXCEPT ![w].status = resp.status, ![w].err = resp.err,
                                   ![w].request = Request(wjob[w])]
          /\ Goto(w, IF IsSuccess(resp) THEN "success" ELSE "incr")
    /\ UNCHANGED <<cfg, fan, life, hub, match, handed, gate, hist, calls, now, fanned, queue, cb, rl, attempts, dlq, jobs, dpc, dbatch, dcur, wjob, faults>>

\* httpClient.Do with an endpoint that takes its time: the request goes out
\* (unless the context is cancelled already) ...
Send(w) ==
    /\ Alive(w[1])
    /\ wpc[w] = "post"
    /\ cfg.slow
    /\ IF life[w[1]].cancelled
       THEN /\ wloc' = [wloc EXCEPT ![w].status = TransportError.status,
                                     ![w].err = TransportError.err]
            /\ Goto(w, "incr")
       ELSE /\ wloc' = [wloc EXCEPT ![w].request = Request(wjob[w])]
            /\ Goto(w, "inflight")
    /\ UNCHANGED <<cfg, fan, life, hub, match, handed, gate, hist, calls, now, fanned, queue, cb, rl, attempts, dlq, jobs, dpc, dbatch, dcur, wjob, faults>>

\* ... and Do returns.
Answered(w) ==
    /\ Alive(w[1])
    /\ wpc[w] = "inflight"
    /\ \E resp \in Outcomes(w[1]) :
          /\ wloc' = [wloc EXCEPT ![w].status = resp.status, ![w].err = resp.err]
          /\ Goto(w, IF IsSuccess(resp) THEN "success" ELSE "incr")
    /\ UNCHANGED <<cfg, fan, life, hub, match, handed, gate, hist, calls, now, fanned, queue, cb, rl, attempts, dlq, jobs, dpc, dbatch, dcur, wjob, faults>>

\* RecordSuccess: HSet state closed, failures 0.
\* Variant: a delivery answered 2xx goes on to handleFailure.
AfterSuccessRetries == "failure"

\* Deliver on 2xx: RecordSuccess, recordAttempt, Broadcast, and nothing more.
AfterSuccess == "record"

RecordSuccess(w) ==
    /\ Alive(w[1])
    /\ wpc[w] = "success"
    /\ \E ok \in ServedTo(w[1]) :
          /\ faults' = CountFor(w[1], ok)
          /\ cb' = IF ok
                   THEN [cb EXCEPT ![cbKey(wjob[w].subscriber_id)] = HSetClosed(@)]
                   ELSE cb
    /\ Goto(w, AfterSuccess)
    /\ UNCHANGED <<cfg, fan, life, hub, match, handed, gate, hist, calls, now, fanned, queue, rl, attempts, dlq, jobs, dpc, dbatch, dcur, wjob, wloc>>

\* RecordFailure: HIncrBy failures 1; an error ends RecordFailure.
IncrFailures(w) ==
    /\ Alive(w[1])
    /\ wpc[w] = "incr"
    /\ LET s == wjob[w].subscriber_id
       IN \E ok \in ServedTo(w[1]) :
             /\ faults' = CountFor(w[1], ok)
             /\ IF ok
                THEN /\ cb' = [cb EXCEPT ![cbKey(s)] = HIncrBy(@)]
                     /\ wloc' = [wloc EXCEPT ![w].failures = HIncrBy(cb[cbKey(s)]).failures]
                     /\ Goto(w, "lastfailed")
                ELSE /\ UNCHANGED <<cb, wloc>>
                     /\ Goto(w, "failure")
    /\ UNCHANGED <<cfg, fan, life, hub, match, handed, gate, hist, calls, now, fanned, queue, rl, attempts, dlq, jobs, dpc, dbatch, dcur, wjob>>

\* RecordFailure: HSet last_failed_at now.
SetLastFailed(w) ==
    /\ Alive(w[1])
    /\ wpc[w] = "lastfailed"
    /\ \E ok \in ServedTo(w[1]) :
          /\ faults' = CountFor(w[1], ok)
          /\ cb' = IF ok
                   THEN [cb EXCEPT ![cbKey(wjob[w].subscriber_id)] = HSetLastFailed(@, now)]
                   ELSE cb
    /\ Goto(w, "getstate")
    /\ UNCHANGED <<cfg, fan, life, hub, match, handed, gate, hist, calls, now, fanned, queue, rl, attempts, dlq, jobs, dpc, dbatch, dcur, wjob, wloc>>

\* RecordFailure: HGet state, then the branch.
ReadState(w) ==
    /\ Alive(w[1])
    /\ wpc[w] = "getstate"
    /\ \E ok \in ServedTo(w[1]) :
          /\ faults' = CountFor(w[1], ok)
          /\ LET state == IF ok THEN cb[cbKey(wjob[w].subscriber_id)].state ELSE ""
             IN /\ wloc' = [wloc EXCEPT ![w].state = state]
                /\ Goto(w, FailureBranch(state, wloc[w].failures))
    /\ UNCHANGED <<cfg, fan, life, hub, match, handed, gate, hist, calls, now, fanned, queue, cb, rl, attempts, dlq, jobs, dpc, dbatch, dcur, wjob>>

\* RecordFailure: HSet state open / HSet state closed.
WriteState(w) ==
    /\ Alive(w[1])
    /\ wpc[w] \in {"setopen", "setclosed"}
    /\ \E ok \in ServedTo(w[1]) :
          /\ faults' = CountFor(w[1], ok)
          /\ cb' = IF ok
                   THEN [cb EXCEPT ![cbKey(wjob[w].subscriber_id)] =
                            HSetState(@, IF wpc[w] = "setopen" THEN StateOpen ELSE StateClosed)]
                   ELSE cb
    /\ Goto(w, "failure")
    /\ UNCHANGED <<cfg, fan, life, hub, match, handed, gate, hist, calls, now, fanned, queue, rl, attempts, dlq, jobs, dpc, dbatch, dcur, wjob, wloc>>

\* Variant: the last attempt is given up one attempt early.
ShouldRetryOneLess(job) == job.attempt + 1 < job.max_retries

\* Variant: the last attempt is retried once more.
ShouldRetryInclusive(job) == job.attempt <= job.max_retries

\* handleFailure: retry while attempt < max_retries, dead-letter otherwise.
ShouldRetry(job) == job.attempt < job.max_retries

\* scheduleRetry
scheduleRetry(w) ==
    /\ Alive(w[1])
    /\ wpc[w] = "failure"
    /\ ShouldRetry(wjob[w])
    /\ \E ok \in ServedTo(w[1]), jitter \in JitterSet :
          /\ faults' = CountFor(w[1], ok)
          /\ queue' = IF ok
                      THEN ZAdd(queue, Marshal(RetryJob(wjob[w])),
                                UnixMicro(now + BaseDelay(wjob[w].attempt) + jitter))
                      ELSE queue
    /\ Goto(w, "record")
    /\ UNCHANGED <<cfg, fan, life, hub, match, handed, gate, hist, calls, now, fanned, cb, rl, attempts, dlq, jobs, dpc, dbatch, dcur, wjob, wloc>>

\* handleFailure with no attempt left goes straight to recordAttempt.
Exhausted(w) ==
    /\ Alive(w[1])
    /\ wpc[w] = "failure"
    /\ ~ShouldRetry(wjob[w])
    /\ Goto(w, "final")
    /\ UNCHANGED <<cfg, fan, life, hub, match, handed, gate, hist, calls, now, fanned, queue, cb, rl, attempts, dlq, jobs, dpc, dbatch, dcur, wjob,
                   wloc, faults>>

\* The progress event Deliver and handleFailure build.
DeliveryEvent(type, job, loc) ==
    [type |-> type,
     event_id |-> job.event_id,
     subscriber_id |-> job.subscriber_id,
     attempt |-> job.attempt,
     status_code |-> loc.status]

\* Variant: a failed attempt that is retried is announced as delivery_failed.
AttemptEventTypeFailed(loc) ==
    IF IsSuccess(loc) THEN "delivery_success" ELSE "delivery_failed"

\* The type Deliver gives the event of a success, handleFailure that of a
\* failure it retries.
AttemptEventType(loc) ==
    IF IsSuccess(loc) THEN "delivery_success" ELSE "delivery_retrying"

\* Variant: Broadcast sends with a plain channel send, which waits for room.
BroadcastReadyWhenRoom(h) == Len(h.broadcast) < HubCap

\* Hub.Broadcast is a select with a default case: it can always proceed.
BroadcastReady(h) == TRUE

\* Hub.Broadcast: the event goes into the channel if there is room, and is
\* dropped otherwise.
Broadcast(h, event) ==
    [broadcast |-> IF Len(h.broadcast) < HubCap THEN Append(h.broadcast, event)
                   ELSE h.broadcast,
     offered |-> [h.offered EXCEPT ![<<event.event_id, event.subscriber_id>>] =
                      Append(@, event.type)]]

\* Hub.Run takes the next message (there is no client to pass it to).
HubRun ==
    /\ cfg.drain
    /\ hub.broadcast # <<>>
    /\ hub' = [hub EXCEPT !.broadcast = Tail(@)]
    /\ UNCHANGED <<cfg, fan, life, match, handed, gate, hist, calls, now, fanned, queue, cb, rl, attempts,
                   dlq, jobs, dpc, dbatch, dcur, wpc, wjob, wloc, faults>>

\* INSERT INTO a table kept per (event, subscriber).
InsertRow(table, pair, row) == [table EXCEPT ![pair] = Append(@, row)]

\* The row recordAttempt inserts (the columns that identify and classify it).
AttemptStatus(status, err) == IF err \/ (status # 0 /\ status >= 400) THEN "failed" ELSE "success"

AttemptRow(job, loc) ==
    [event_id |-> job.event_id,
     subscriber_id |-> job.subscriber_id,
     attempt_number |-> job.attempt,
     status |-> AttemptStatus(loc.status, loc.err),
     http_status_code |-> loc.status]

\* recordAttempt after a success or after scheduleRetry, then the broadcast:
\* Deliver then returns.
recordAttempt(w) ==
    /\ Alive(w[1])
    /\ wpc[w] = "record"
    /\ \E ok \in ServedTo(w[1]) :
          /\ faults' = CountFor(w[1], ok)
          /\ attempts' = IF ok THEN InsertRow(attempts, PairOf(wjob[w]), AttemptRow(wjob[w], wloc[w]))
                         ELSE attempts
    /\ BroadcastReady(hub)
    /\ hub' = Broadcast(hub, DeliveryEvent(AttemptEventType(wloc[w]), wjob[w], wloc[w]))
    /\ Return(w)
    /\ UNCHANGED <<cfg, fan, life, match, handed, gate, hist, calls, now, fanned, queue, cb, rl, dlq, jobs, dpc, dbatch, dcur>>

\* Variant: handleFailure gives up when the attempt could not be recorded.
AfterRecordAbort(ok) == IF ok THEN "deadletter" ELSE "idle"

\* recordAttempt returns nothing: handleFailure goes on to moveToDLQ whether
\* the write failed or not.
AfterRecord(ok) == "deadletter"

\* recordAttempt of the last attempt: moveToDLQ follows.
recordFinal(w) ==
    /\ Alive(w[1])
    /\ wpc[w] = "final"
    /\ \E ok \in ServedTo(w[1]) :
          /\ faults' = CountFor(w[1], ok)
          /\ attempts' = IF ok THEN InsertRow(attempts, PairOf(wjob[w]), AttemptRow(wjob[w], wloc[w]))
                         ELSE attempts
          /\ Goto(w, AfterRecord(ok))
    /\ UNCHANGED <<cfg, fan, life, hub, match, handed, gate, hist, calls, now, fanned, queue, cb, rl, dlq, jobs, dpc, dbatch, dcur, wjob, wloc>>

DeadLetterRow(job, loc) ==
    [event_id |-> job.event_id,
     subscriber_id |-> job.subscriber_id,
     total_attempts |-> job.attempt]

\* moveToDLQ, then the broadcast: Deliver then returns.
moveToDLQ(w) ==
    /\ Alive(w[1])
    /\ wpc[w] = "deadletter"
    /\ \E ok \in ServedTo(w[1]) :
          /\ faults' = CountFor(w[1], ok)
          /\ dlq' = IF ok THEN InsertRow(dlq, PairOf(wjob[w]), DeadLetterRow(wjob[w], wloc[w])) ELSE dlq
    /\ BroadcastReady(hub)
    /\ hub' = Broadcast(hub, DeliveryEvent("delivery_dlq", wjob[w], wloc[w]))
    /\ Return(w)
    /\ UNCHANGED <<cfg, fan, life, match, handed, gate, hist, calls, now, fanned, queue, cb, rl, attempts, jobs, dpc, dbatch, dcur>>

(***************************************************************************)
(* The pipeline                                                            *)
(***************************************************************************)
Next ==
    \/ Tick
    \/ \E e \in Events : FanOut(e)
    \/ \E r \in Replicas : Poll(r)
    \/ \E r \in Replicas : Claim(r)
    \/ \E r \in Replicas : Submit(r)
    \/ \E r \in Replicas, e \in Events : SubmitDirect(r, e)
    \/ \E w \in Workers : Receive(w)
    \/ \E w \in Workers : AllowRequest(w)
    \/ \E w \in Workers : SetHalfOpen(w)
    \/ \E w \in Workers : Allow(w)
    \/ \E w \in Workers : requeueWithDelay(w)
    \/ \E w \in Workers : Post(w)
    \/ \E w \in Workers : RecordSuccess(w)
    \/ \E w \in Workers : IncrFailures(w)
    \/ \E w \in Workers : SetLastFailed(w)
    \/ \E w \in Workers : ReadState(w)
    \/ \E w \in Workers : WriteState(w)
    \/ \E w \in Workers : scheduleRetry(w)
    \/ \E w \in Workers : Exhausted(w)
    \/ \E w \in Workers : recordAttempt(w)
    \/ \E w \in Workers : recordFinal(w)
    \/ \E w \in Workers : moveToDLQ(w)
    \/ HubRun

Spec == Init /\ [][Next]_vars

(***************************************************************************)
(* Properties of the pipeline under Spec                                   *)
(***************************************************************************)
AttemptNumbers(p) == [i \in DOMAIN attempts[p] |-> attempts[p][i].attempt_number]

\* C1: for every (event, subscriber) pair the attempt numbers of the recorded
\* attempts, in the order in which they were recorded, are 1, 2, ..., k: no
\* gap, no number twice, attempt n+1 recorded only after attempt n.
C1_AttemptsNumberedInOrder ==
    \A p \in Pairs : \A i \in DOMAIN attempts[p] : AttemptNumbers(p)[i] = i

\* The max_retries carried by the jobs of a pair: 5 for a job of FanOut, 1 for
\* a job handed to the pool directly.
MaxAttemptsOf(p) == IF p[1] \in handed THEN SingleAttempt ELSE 5

\* C2: a pair that has a dead-letter row has exactly one, and its
\* total_attempts is the job's max_attempts (5 for the jobs of fan-out).
C2_OneDeadLetterRow ==
    \A p \in Pairs :
        dlq[p] # <<>> => Len(dlq[p]) = 1 /\ dlq[p][1].total_attempts = MaxAttemptsOf(p)

C2_Witness ==
    \E p \in Pairs : Len(dlq[p]) = 1 /\ Len(attempts[p]) = 5

BreakerRefusal(w) == wpc[w] = "allow" /\ wpc'[w] = "requeue"
LimiterRefusal(w) == wpc[w] = "limit" /\ wpc'[w] = "requeue"
Requeued(w) == wpc[w] = "requeue" /\ wpc'[w] # "requeue"

\* queue' is queue with member m put at score, everything else as it was.
PutBack(m, score) ==
    /\ DOMAIN queue' = DOMAIN queue \cup {m}
    /\ queue'[m] = score
    /\ \A k \in DOMAIN queue \ {m} : queue'[k] = queue[k]

\* C3: a refusal at admission records no attempt and ends Deliver with the
\* job put back: the entry decodes to the very job Deliver was given, at
\* now + 5 s after a breaker refusal, now + 1 s after a limiter refusal
\* (or the queue is as it was, when the KV store refused the write).
C3_RefusalRequeuesSameJob ==
    [][\A w \in Workers :
          /\ BreakerRefusal(w) => wloc'[w].delay = 5000 /\ wjob' = wjob /\ attempts' = attempts
          /\ LimiterRefusal(w) => wloc'[w].delay = 1000 /\ wjob' = wjob /\ attempts' = attempts
          /\ Requeued(w) =>
                /\ wpc'[w] = "idle"
                /\ attempts' = attempts
                /\ \/ queue' = queue /\ faults' # faults
                   \/ \E m \in DOMAIN queue' :
                         /\ Unmarshal(m) = wjob[w]
                         /\ PutBack(m, (now + wloc[w].delay) * 1000)]_vars

\* A first attempt that waits in the queue 5 s ahead with nothing recorded.
C3_Witness ==
    \E m \in DOMAIN queue :
        /\ Unmarshal(m).attempt = 1
        /\ queue[m] = (now + 5000) * 1000
        /\ attempts[MemberPair(m)] = <<>>

\* Where an entry of the queue is once a dispatcher has removed it.
HeldByDispatcher(m) == {r \in Replicas : dpc[r] = "submit" /\ dcur[r] = m}
HeldInChannel(m) == {<<r, i>> \in Replicas \X (1 .. 2 * NumWorkers) :
                        i <= Len(jobs[r]) /\ Marshal(jobs[r][i]) = m}
HeldByWorker(m) == {w \in Workers : wpc[w] # "idle" /\ Marshal(wjob[w]) = m}
Holders(m) ==
    Cardinality(HeldByDispatcher(m)) + Cardinality(HeldInChannel(m))
        + Cardinality(HeldByWorker(m)) + (IF m \in DOMAIN queue THEN 1 ELSE 0)

Entries ==
    DOMAIN queue \cup {dcur[r] : r \in {x \in Replicas : dpc[x] = "submit"}}
        \cup {Head(dbatch[r]) : r \in {x \in Replicas : dbatch[x] # <<>>}}

\* C5: an entry is submitted only by the dispatcher whose remove took it out
\* of the queue, so it is never in two hands: in the queue, or with one
\* dispatcher, or once in one channel, or with one worker.
C5_OneDispatcherSubmits ==
    \A m \in Entries : Holders(m) <= 1

\* One dispatcher has removed an entry that another still has in its batch.
C5_Witness ==
    \E r1 \in Replicas, r2 \in Replicas :
        /\ r1 # r2
        /\ dpc[r1] = "submit"
        /\ dpc[r2] = "zrem"
        /\ Head(dbatch[r2]) = dcur[r1]

OpenCooling(s) ==
    cb[cbKey(s)].state = StateOpen /\ now - cb[cbKey(s)].last_failed_at * 1000 < 30000

Posted(w) == wpc[w] = "post" /\ wpc'[w] # "post"

\* C10: while the stored state of a subscriber's circuit is open and fewer
\* than 30 s have passed since last_failed_at, no worker sends an HTTP request
\* to that subscriber.
C10_NoPostWhileOpen ==
    [][\A w \in Workers : Posted(w) => ~OpenCooling(wjob[w].subscriber_id)]_vars

\* Steps of handleFailure by worker w: the branch, the end of the retry branch,
\* the dead-letter insert.
Branched(w) == wpc[w] = "failure" /\ wpc'[w] # "failure"
RetryRecorded(w) == wpc[w] = "record" /\ wpc'[w] # "record"
DeadLetterDone(w) == wpc[w] = "deadletter" /\ wpc'[w] # "deadletter"

\* The step has put the retry job of w's job into the queue.
RetryEnqueued(w) ==
    /\ Marshal(RetryJob(wjob[w])) \in DOMAIN queue'
    /\ queue' # queue
    /\ \A m \in DOMAIN queue : m \in DOMAIN queue'

\* The entries of the job queue for pair p.
EntriesOf(p) == {m \in DOMAIN queue : MemberPair(m) = p}

\* C37: the job queue never holds two entries for one (event, subscriber)
\* pair: a retry or an admission re-enqueue is added only after the entry it
\* follows was removed.
C37_OneEntryPerPair ==
    \A p \in Pairs : Cardinality(EntriesOf(p)) <= 1

\* With two replicas polling, the retry of a failed first attempt is the one
\* entry of its pair.
C37_Witness ==
    /\ cfg.replicas = NumReplicas
    /\ \E p \in Pairs :
          /\ Len(attempts[p]) = 1
          /\ \E m \in EntriesOf(p) : Unmarshal(m).attempt = 2

\* Deliver has handled an attempt answered 2xx for pair p.
Succeeded(p) ==
    \E i \in DOMAIN hub.offered[p] : hub.offered[p][i] = "delivery_success"

\* A job of pair p is on its way to an attempt: held by a dispatcher that has
\* removed it, in a channel, or with a worker that has not yet sent its POST.
Pending(p) ==
    \/ \E r \in Replicas : dpc[r] = "submit" /\ MemberPair(dcur[r]) = p
    \/ \E r \in Replicas : \E i \in DOMAIN jobs[r] : PairOf(jobs[r][i]) = p
    \/ \E w \in Workers :
          /\ wpc[w] \in {"allow", "halfopen", "limit", "requeue", "post", "inflight"}
          /\ PairOf(wjob[w]) = p

\* A worker is handling a failed attempt of pair p that will enqueue a job or
\* insert a dead-letter row.
Failing(p) ==
    \E w \in Workers :
        /\ wpc[w] \in {"incr", "lastfailed", "getstate", "setopen", "setclosed",
                        "failure", "final", "deadletter"}
        /\ PairOf(wjob[w]) = p

\* C38: once an attempt answered 2xx has been handled for a pair, the job
\* queue holds no job of the pair, none is on its way to an attempt or in
\* failure handling, and the pair has no dead-letter row.
C38_SuccessIsFinal ==
    \A p \in Pairs :
        Succeeded(p) =>
            /\ EntriesOf(p) = {}
            /\ ~Pending(p)
            /\ ~Failing(p)
            /\ dlq[p] = <<>>

\* The second attempt of a pair was answered 2xx and handled while the worker
\* of the failed first attempt has still to record it.
C38_Witness ==
    \E p \in Pairs :
        /\ Succeeded(p)
        /\ \E w \in Workers :
              wpc[w] = "record" /\ PairOf(wjob[w]) = p /\ wjob[w].attempt = 1

\* Pair p has reached its terminal outcome: a 2xx answer handled, or the
\* dead-letter branch of handleFailure run to its end.
Terminal(p) ==
    \/ Succeeded(p)
    \/ \E i \in DOMAIN hub.offered[p] : hub.offered[p][i] = "delivery_dlq"

\* Worker w is executing a job of pair p and has still to re-enqueue it or
\* bring it to its terminal outcome (after scheduleRetry, with the attempt
\* left to record, the job is the one scheduleRetry enqueued).
Executing(w, p) ==
    /\ wpc[w] # "idle"
    /\ PairOf(wjob[w]) = p
    /\ wpc[w] = "record" => IsSuccess(wloc[w])

\* A job of pair p is in the job queue, in a channel, or with a worker.
Located(p) ==
    \/ EntriesOf(p) # {}
    \/ \E r \in Replicas : \E i \in DOMAIN jobs[r] : PairOf(jobs[r][i]) = p
    \/ \E w \in Workers : Executing(w, p)

\* A job of pair p is with a dispatcher that has removed it from the queue
\* and has still to complete Pool.Submit.
WithDispatcher(p) ==
    \E r \in Replicas : dpc[r] = "submit" /\ MemberPair(dcur[r]) = p

\* The store call of the step returned an error.
StoreError == faults' = faults - 1

\* The step is a command to the KV store that fails.
KVError ==
    /\ StoreError
    /\ \A w \in Workers : wpc[w] \in {"record", "final", "deadletter"} => wpc'[w] = wpc[w]

\* The step is a FanOut that returns without error.
FanOutDone(e) == e \notin fanned /\ e \in fanned' /\ ~StoreError

\* C39 as stated: without a KV error, a pair whose job FanOut has enqueued is,
\* until its terminal outcome, in the job queue, in a channel or with a
\* worker.
C39_JobNeverLost ==
    [][\A p \in Pairs :
          /\ FanOutDone(p[1]) => Located(p)'
          /\ ((Located(p) \/ Terminal(p)) /\ ~KVError) => (Located(p) \/ Terminal(p))']_vars

\* C39: without a KV error, a pair whose job FanOut has enqueued is, until
\* its terminal outcome, in the job queue, with the dispatcher that removed
\* it and is in Pool.Submit, in a channel or with a worker.
C39_JobNeverLostCountingDispatcher ==
    [][\A p \in Pairs :
          /\ FanOutDone(p[1]) => Located(p)'
          /\ ((Located(p) \/ WithDispatcher(p) \/ Terminal(p)) /\ ~KVError) =>
                (Located(p) \/ WithDispatcher(p) \/ Terminal(p))']_vars

\* The job of a pair is with the dispatcher only, after FanOut enqueued it
\* and before any attempt.
C39_Witness ==
    \E p \in Pairs :
        /\ p[1] \in fanned
        /\ WithDispatcher(p)
        /\ ~Located(p)
        /\ ~Terminal(p)

\* Worker w is inside a circuit-breaker call, between its first command and
\* its last.
InBreakerCall(w) == wpc[w] \in {"halfopen", "lastfailed", "getstate", "setopen", "setclosed"}

\* No store call of the run has failed.
NoStoreError == cfg = Lifecycle => faults = MaxFaults

\* C35: whatever the interleaving of the breaker calls of different workers,
\* once every call has returned the stored state of a subscriber is open or
\* half-open only with a stored failure counter of at least 5.
C35_BreakerCallsAtomic ==
    (NoStoreError /\ \A w \in Workers : ~InBreakerCall(w)) =>
        \A s \in Subscribers :
            cb[cbKey(s)].state \in {StateOpen, StateHalfOpen} =>
                cb[cbKey(s)].failures >= failureThreshold

\* The attempt worker w has just made is in the record store.
AttemptRecorded(w) ==
    \E i \in DOMAIN attempts[PairOf(wjob[w])] :
        attempts[PairOf(wjob[w])][i].attempt_number = wjob[w].attempt

\* C34: on a failed attempt with attempts remaining, the row of the attempt is
\* in the record store when the job of the next attempt is put in the queue.
C34_RecordedBeforeNextEnqueued ==
    [][\A w \in Workers :
          (Branched(w) /\ ShouldRetry(wjob[w]) /\ RetryEnqueued(w)) => AttemptRecorded(w)]_vars

\* The step has inserted one dead-letter row for the pair of w's job.
DeadLetterInserted(w) ==
    /\ Len(dlq'[PairOf(wjob[w])]) = Len(dlq[PairOf(wjob[w])]) + 1
    /\ \A p \in Pairs \ {PairOf(wjob[w])} : dlq'[p] = dlq[p]

\* What a failed attempt leads to, given what a refused store write leaves.
FailureHandling(w, retryLost, rowLost) ==
    /\ Branched(w) =>
          IF wjob[w].attempt < wjob[w].max_retries
          THEN (RetryEnqueued(w) \/ retryLost) /\ wpc'[w] = "record" /\ dlq' = dlq
          ELSE queue' = queue /\ wpc'[w] = "final" /\ dlq' = dlq
    /\ RetryRecorded(w) => wpc'[w] = "idle" /\ queue' = queue /\ dlq' = dlq
    /\ wpc[w] \in {"final", "deadletter"} => wjob[w].attempt >= wjob[w].max_retries
    /\ DeadLetterDone(w) =>
          (DeadLetterInserted(w) \/ rowLost) /\ wpc'[w] = "idle" /\ queue' = queue

\* C16 as stated: a failed attempt with attempt < max_attempts enqueues a retry
\* job and inserts no dead-letter row, one with attempt >= max_attempts
\* inserts a dead-letter row and enqueues nothing: never both, never neither.
C16_RetryXorDeadLetter ==
    [][\A w \in Workers : FailureHandling(w, FALSE, FALSE)]_vars

\* C16, amended: the same, except that the retry job is missing from the queue
\* when the KV store refused the ZAdd, and the dead-letter row is missing
\* when the record store refused the INSERT.
C16_RetryXorDeadLetterIfStored ==
    [][\A w \in Workers :
          FailureHandling(w, queue' = queue /\ faults' # faults,
                             dlq' = dlq /\ faults' # faults)]_vars

\* A job allowed a single attempt was dead-lettered by its first failure with
\* nothing enqueued.
C16_Witness ==
    \E p \in Pairs :
        /\ p[1] \in handed
        /\ Len(dlq[p]) = 1
        /\ dlq[p][1].total_attempts = 1
        /\ Len(attempts[p]) = 1
        /\ queue = <<>>

\* Member m is put into the queue, or moved in it, by the step.
Enqueues(m) == m \in DOMAIN queue' /\ (m \notin DOMAIN queue \/ queue'[m] # queue[m])

\* C17: the retry job enqueued after a failed attempt decodes to the failed
\* job with attempt + 1 and every other field as it was; any job that a
\* worker enqueues has at least the attempt number of the job the worker
\* holds, and a job enqueued by fan-out has attempt 1.
C17_RetryKeepsSnapshot ==
    [][\A m \in DOMAIN queue' :
          Enqueues(m) =>
             \/ fanned' # fanned /\ Unmarshal(m).attempt = 1
             \/ \E w \in Workers :
                   /\ wpc'[w] # wpc[w]
                   /\ wpc[w] \in {"failure", "requeue"}
                   /\ Unmarshal(m).attempt >= wjob[w].attempt
                   /\ wpc[w] = "failure" =>
                         Unmarshal(m) = [wjob[w] EXCEPT !.attempt = wjob[w].attempt + 1]]_vars

\* The retry of a retry waits in the queue.
C17_Witness ==
    \E m \in DOMAIN queue :
        /\ Unmarshal(m).attempt = 3
        /\ Unmarshal(m).rate_limit_per_second = 1
        /\ Len(attempts[MemberPair(m)]) = 2

\* 2^a seconds in microseconds, for the attempts that can be retried.
BackoffMicros(a) ==
    CASE a = 1 -> 2000000
      [] a = 2 -> 4000000
      [] a = 3 -> 8000000
      [] a = 4 -> 16000000

\* C18: the retry job of a failed attempt a is enqueued with a score that lies
\* d after the current time, 2^a s <= d < 2^a s + 1000 ms.
C18_BackoffWithJitter ==
    [][\A w \in Workers : \A m \in DOMAIN queue' :
          (Branched(w) /\ Enqueues(m)) =>
             /\ wjob[w].attempt \in 1 .. 4
             /\ queue'[m] - UnixMicro(now) >= BackoffMicros(wjob[w].attempt)
             /\ queue'[m] - UnixMicro(now) < BackoffMicros(wjob[w].attempt) + 1000000]_vars

\* The retry of attempt 4 has just been enqueued with the largest jitter.
C18_Witness ==
    \E m \in DOMAIN queue :
        /\ Unmarshal(m).attempt = 5
        /\ queue[m] - UnixMicro(now) = 16999000

\* Dispatcher r removes the member it then submits.
Claimed(r) == dpc[r] = "zrem" /\ dpc'[r] = "submit"

\* C19: a dispatcher takes a job out of the queue, to hand it to the pool,
\* only when the job's score is at most the current time.
C19_SubmittedOnlyWhenDue ==
    [][\A r \in Replicas :
          Claimed(r) => queue[Head(dbatch[r])] <= UnixMicro(now)]_vars

Is2xx(code) == code >= 200 /\ code < 300

\* C15: a recorded attempt has status success exactly when the endpoint
\* answered it with a 2xx status; an attempt answered with any other status,
\* or not answered at all, is recorded as failed.
C15_SuccessIffAnswered2xx ==
    \A p \in Pairs : \A i \in DOMAIN attempts[p] :
        (attempts[p][i].status = "success") <=> Is2xx(attempts[p][i].http_status_code)

\* The signature a receiver computes over the body it got, with the secret it
\* shares with the sender.
ExpectedSignature(secret, body) == <<"hex", <<"hmac-sha256", secret, body>>>>

Sent(w) == wloc[w].request # NoRequest

\* C14: the request a worker has sent for its job carries the job's payload as
\* body, the hex HMAC-SHA256 of that body under the job's secret as
\* X-Webhook-Signature, and the job's event type, event id and attempt
\* number as X-Webhook-Event, X-Webhook-ID and X-Webhook-Attempt; it goes
\* to the job's endpoint URL.
C14_RequestFromJobSnapshot ==
    \A w \in Workers :
        Sent(w) =>
            /\ wloc[w].request.method = "POST"
            /\ wloc[w].request.url = wjob[w].endpoint_url
            /\ wloc[w].request.body = wjob[w].payload
            /\ wloc[w].request.signature =
                  ExpectedSignature(wjob[w].secret_key, wloc[w].request.body)
            /\ wloc[w].request.event = wjob[w].event_type
            /\ wloc[w].request.id = wjob[w].event_id
            /\ Atoi(wloc[w].request.attempt) = wjob[w].attempt

\* A retry has been sent.
C14_Witness ==
    \E w \in Workers : Sent(w) /\ wjob[w].attempt = 2 /\ wloc[w].request.attempt = <<2>>

\* Worker w is at a call of Hub.Broadcast, which ends Deliver.
AtBroadcast(w) == wpc[w] \in {"record", "deadletter"}
Broadcasts(w) == AtBroadcast(w) /\ wpc'[w] = "idle"

\* C28: Broadcast never blocks the deliverer: a worker at the call can always
\* take the step, and a call made with the channel full leaves the channel as
\* it was (the event is dropped), while one made with room appends its event.
C28_BroadcastNeverBlocks ==
    /\ [](\A w \in Workers :
             AtBroadcast(w) => ENABLED (recordAttempt(w) \/ moveToDLQ(w)))
    /\ [][\A w \in Workers :
             Broadcasts(w) =>
                IF Len(hub.broadcast) >= HubCap
                THEN hub'.broadcast = hub.broadcast
                ELSE /\ Len(hub'.broadcast) = Len(hub.broadcast) + 1
                     /\ SubSeq(hub'.broadcast, 1, Len(hub.broadcast)) = hub.broadcast]_vars

\* Two workers are at the call while the channel is full.
C28_Witness ==
    /\ Len(hub.broadcast) = HubCap
    /\ \E w1, w2 \in Workers : w1 # w2 /\ AtBroadcast(w1) /\ AtBroadcast(w2)

\* The event type that matches the outcome of the attempt worker w ends.
OutcomeType(w) ==
    IF wpc[w] = "deadletter" THEN "delivery_dlq"
    ELSE IF Is2xx(wloc[w].status) /\ ~wloc[w].err THEN "delivery_success"
    ELSE "delivery_retrying"

\* C29: the step that ends an executed attempt offers exactly one event, of
\* the type of its outcome, for its pair; no other step offers any (a refusal
\* at admission ends without one); and the events offered for a pair that
\* went through five failed attempts are four delivery_retrying, then one
\* delivery_dlq.
C29_OneEventPerAttempt ==
    /\ [][\A w \in Workers :
             IF Broadcasts(w)
             THEN hub'.offered[PairOf(wjob[w])] =
                     Append(hub.offered[PairOf(wjob[w])], OutcomeType(w))
             ELSE (wpc'[w] # wpc[w] /\ wpc[w] # "idle") =>
                     hub'.offered[PairOf(wjob[w])] = hub.offered[PairOf(wjob[w])]]_vars
    /\ [][\A p \in Pairs :
             Len(hub'.offered[p]) <= Len(hub.offered[p]) + 1]_vars
    /\ [](\A p \in Pairs :
             (hub.offered[p] # <<>> /\ hub.offered[p][Len(hub.offered[p])] = "delivery_dlq"
                 /\ p[1] \notin handed)
             => hub.offered[p] = <<"delivery_retrying", "delivery_retrying", "delivery_retrying",
                                   "delivery_retrying", "delivery_dlq">>)

\* Five events offered for one pair, the last one delivery_dlq.
C29_Witness ==
    \E p \in Pairs :
        /\ Len(hub.offered[p]) = 5
        /\ hub.offered[p][5] = "delivery_dlq"
        /\ Len(attempts[p]) = 5


C27_RecordFailureChangesNothingElse ==
    [][\A w \in Workers :
          /\ (wpc[w] = "record" /\ wpc'[w] # "record") =>
                /\ wpc'[w] = "idle"
                /\ hub' = Broadcast(hub, DeliveryEvent(AttemptEventType(wloc[w]), wjob[w], wloc[w]))
                /\ queue' = queue /\ dlq' = dlq /\ cb' = cb /\ jobs' = jobs
                /\ StoreError => attempts' = attempts
          /\ (wpc[w] = "final" /\ wpc'[w] # "final") =>
                /\ wpc'[w] = "deadletter" /\ wjob'[w] = wjob[w]
                /\ queue' = queue /\ dlq' = dlq /\ cb' = cb /\ jobs' = jobs /\ hub' = hub
                /\ StoreError => attempts' = attempts
          /\ (wpc[w] = "deadletter" /\ wpc'[w] # "deadletter" /\ ~StoreError) =>
                /\ dlq' = InsertRow(dlq, PairOf(wjob[w]), DeadLetterRow(wjob[w], wloc[w]))
                /\ hub' = Broadcast(hub, DeliveryEvent("delivery_dlq", wjob[w], wloc[w]))]_vars

\* The write of one of five attempts failed: four rows, yet the dead-letter
\* row and all five events are there.
C27_Witness ==
    \E p \in Pairs :
        /\ Len(attempts[p]) = 4
        /\ Len(dlq[p]) = 1
        /\ Len(hub.offered[p]) = 5
        /\ faults = 0

(***************************************************************************)
(* The pipeline with an available KV store and record store, in which the  *)
(* clock advances only when no goroutine has a step to take and every      *)
(* goroutine that can take a step eventually does.                         *)
(***************************************************************************)
Steady == [stops |-> FALSE, slow |-> FALSE, drain |-> FALSE, replicas |-> 1, workers |-> 1, events |-> NumEvents, rate_limit |-> 1,
           answers |-> {Answer(200), Answer(304)}, direct |-> 0,
           until |-> StartTime + FairHorizon]

FairInit ==
    \E hash \in {NoHash, AfterFailures(failureThreshold, StartTime)} : Start(Steady, hash, {}, 0)

Quiescent ==
    /\ \A e \in Events : e <= cfg.events => e \in fanned
    /\ \A m \in DOMAIN queue : queue[m] > UnixMicro(now)
    /\ \A r \in Replicas : dpc[r] = "wait" /\ jobs[r] = <<>>
    /\ \A w \in Workers : wpc[w] = "idle"

TickIdle ==
    /\ Quiescent
    /\ Tick

Step ==
    \/ \E e \in Events : FanOut(e)
    \/ \E r \in Replicas : Poll(r)
    \/ \E r \in Replicas : Claim(r)
    \/ \E r \in Replicas : Submit(r)
    \/ \E w \in Workers : Receive(w)
    \/ \E w \in Workers : AllowRequest(w)
    \/ \E w \in Workers : SetHalfOpen(w)
    \/ \E w \in Workers : Allow(w)
    \/ \E w \in Workers : requeueWithDelay(w)
    \/ \E w \in Workers : Post(w)
    \/ \E w \in Workers : RecordSuccess(w)
    \/ \E w \in Workers : IncrFailures(w)
    \/ \E w \in Workers : SetLastFailed(w)
    \/ \E w \in Workers : ReadState(w)
    \/ \E w \in Workers : WriteState(w)
    \/ \E w \in Workers : scheduleRetry(w)
    \/ \E w \in Workers : Exhausted(w)
    \/ \E w \in Workers : recordAttempt(w)
    \/ \E w \in Workers : recordFinal(w)
    \/ \E w \in Workers : moveToDLQ(w)

FairNext == TickIdle \/ Step

FairSpec ==
    /\ FairInit
    /\ [][FairNext]_vars
    /\ WF_vars(TickIdle)
    /\ \A e \in Events : WF_vars(FanOut(e))
    /\ \A r \in Replicas : WF_vars(Poll(r) /\ dpc'[r] = "zrem")
    /\ \A r \in Replicas : WF_vars(Claim(r)) /\ WF_vars(Submit(r))
    /\ \A w \in Workers :
          /\ WF_vars(Receive(w))
          /\ WF_vars(AllowRequest(w)) /\ WF_vars(SetHalfOpen(w)) /\ WF_vars(Allow(w))
          /\ WF_vars(requeueWithDelay(w)) /\ WF_vars(Post(w))
          /\ WF_vars(RecordSuccess(w)) /\ WF_vars(IncrFailures(w))
          /\ WF_vars(SetLastFailed(w)) /\ WF_vars(ReadState(w)) /\ WF_vars(WriteState(w))
          /\ WF_vars(scheduleRetry(w)) /\ WF_vars(Exhausted(w))
          /\ WF_vars(recordAttempt(w)) /\ WF_vars(recordFinal(w)) /\ WF_vars(moveToDLQ(w))

Enqueued(p) == \E m \in DOMAIN queue : MemberPair(m) = p
Answered2xx(p) == \E i \in DOMAIN attempts[p] : Is2xx(attempts[p][i].http_status_code)
DeadLettered(p) ==
    /\ dlq[p] # <<>>
    /\ Cardinality({i \in DOMAIN attempts[p] : ~Is2xx(attempts[p][i].http_status_code)}) = 5

\* C4: with the stores available, no shutdown and fair scheduling, every job
\* enqueued by fan-out leads to an attempt answered 2xx or to a dead-letter
\* row after 5 failed attempts for its pair.
C4_EveryJobTerminates ==
    \A p \in Pairs : Enqueued(p) ~> (Answered2xx(p) \/ DeadLettered(p))

\* A pair that was dead-lettered although it found the circuit open on the way.
C4_Witness ==
    \E p \in Pairs : DeadLettered(p) /\ cb[cbKey(p[2])].failures > 5

(***************************************************************************)
(* The worker pool fed by a caller, as in the pool's test: the caller      *)
(* submits its jobs, no cancellation happens, and every goroutine that can *)
(* take a step eventually does.                                            *)
(***************************************************************************)
PoolInit == \E hash \in {NoHash, AfterFailures(failureThreshold - 1, StartTime)} :
               Start(Direct, hash, {}, 0)

PoolNext ==
    \/ \E r \in Replicas, e \in Events : SubmitDirect(r, e)
    \/ \E w \in Workers : Receive(w)
    \/ \E w \in Workers : AllowRequest(w)
    \/ \E w \in Workers : requeueWithDelay(w)
    \/ \E w \in Workers : Allow(w)
    \/ \E w \in Workers : Post(w)
    \/ \E w \in Workers : RecordSuccess(w)
    \/ \E w \in Workers : IncrFailures(w)
    \/ \E w \in Workers : SetLastFailed(w)
    \/ \E w \in Workers : ReadState(w)
    \/ \E w \in Workers : WriteState(w)
    \/ \E w \in Workers : Exhausted(w)
    \/ \E w \in Workers : recordAttempt(w)
    \/ \E w \in Workers : recordFinal(w)
    \/ \E w \in Workers : moveToDLQ(w)

PoolSpec ==
    /\ PoolInit
    /\ [][PoolNext]_vars
    /\ \A r \in Replicas, e \in Events : WF_vars(SubmitDirect(r, e))
    /\ \A w \in Workers :
          /\ WF_vars(Receive(w))
          /\ WF_vars(AllowRequest(w)) /\ WF_vars(requeueWithDelay(w))
          /\ WF_vars(Allow(w)) /\ WF_vars(Post(w))
          /\ WF_vars(RecordSuccess(w)) /\ WF_vars(IncrFailures(w))
          /\ WF_vars(SetLastFailed(w)) /\ WF_vars(ReadState(w)) /\ WF_vars(WriteState(w))
          /\ WF_vars(Exhausted(w))
          /\ WF_vars(recordAttempt(w)) /\ WF_vars(recordFinal(w)) /\ WF_vars(moveToDLQ(w))

\* Where the job of a pair is between Pool.Submit and the end of Deliver.
InChannel(p) == {<<r, i>> \in Replicas \X (1 .. 2 * NumWorkers) :
                    i <= Len(jobs[r]) /\ PairOf(jobs[r][i]) = p}
InDeliver(p) == {w \in Workers : wpc[w] # "idle" /\ PairOf(wjob[w]) = p}

\* The runs of Deliver that ended for the pair: each ends with one attempt
\* row, or with the job put back into the queue by requeueWithDelay.
Ended(p) ==
    Len(attempts[p]) + Cardinality({m \in DOMAIN queue : PairOf(Unmarshal(m)) = p})

\* The runs of Deliver that began for the pair.
Runs(p) ==
    IF InDeliver(p) = {} THEN Ended(p)
    ELSE Cardinality(InDeliver(p))
            + (IF \E w \in InDeliver(p) : wpc[w] = "deadletter" THEN Ended(p) - 1 ELSE Ended(p))

\* C20: a job passed to Pool.Submit is taken from the channel by one worker
\* and run by Deliver once: it is in the channel or in one run of Deliver,
\* never both and never twice, and its one run eventually ends.
C20_SubmittedJobRunsOnce ==
    /\ [](\A e \in Events :
             LET p == <<e, "A">> IN
             /\ e \in handed => Cardinality(InChannel(p)) + Runs(p) = 1
             /\ e \notin handed => Cardinality(InChannel(p)) + Runs(p) = 0)
    /\ \A e \in Events :
          (e \in handed) ~> (Ended(<<e, "A">>) = 1 /\ InDeliver(<<e, "A">>) = {})

\* Every job the caller submitted has been run, one of them put back by the
\* open circuit, and all workers are idle again.
C20_Witness ==
    /\ cfg.direct > 0
    /\ handed = 1 .. cfg.direct
    /\ \A e \in handed : Ended(<<e, "A">>) = 1
    /\ \E e \in handed : Len(attempts[<<e, "A">>]) = 1
    /\ \A w \in Workers : wpc[w] = "idle"

(***************************************************************************)
(* Backlog: one replica with a single worker is given more jobs at once    *)
(* than its channel holds; the endpoint answers 200.  Every goroutine that *)
(* can take a step eventually does.                                        *)
(***************************************************************************)
Backlog == [stops |-> FALSE, slow |-> FALSE, drain |-> FALSE, replicas |-> 1,
            workers |-> 1, events |-> NumBacklog, rate_limit |-> 0,
            answers |-> {Answer(200)}, direct |-> 0,
            until |-> StartTime + ShortHorizon]

BacklogInit == Start(Backlog, NoHash, {}, 0)

BacklogNext ==
    \/ \E e \in Events : FanOut(e)
    \/ \E r \in Replicas : Poll(r)
    \/ \E r \in Replicas : Claim(r)
    \/ \E r \in Replicas : Submit(r)
    \/ \E w \in Workers : Receive(w)
    \/ \E w \in Workers : AllowRequest(w)
    \/ \E w \in Workers : Allow(w)
    \/ \E w \in Workers : Post(w)
    \/ \E w \in Workers : RecordSuccess(w)
    \/ \E w \in Workers : recordAttempt(w)

BacklogSpec ==
    /\ BacklogInit
    /\ [][BacklogNext]_vars
    /\ \A r \in Replicas :
          WF_vars(Poll(r)) /\ WF_vars(Claim(r)) /\ WF_vars(Submit(r))
    /\ \A w \in Workers :
          /\ WF_vars(Receive(w)) /\ WF_vars(AllowRequest(w)) /\ WF_vars(Allow(w))
          /\ WF_vars(Post(w)) /\ WF_vars(RecordSuccess(w)) /\ WF_vars(recordAttempt(w))

\* The workers Pool.Start launches in replica r.
WorkersOf(r) == {w \in Workers : w[1] = r /\ w[2] <= cfg.workers}

\* The dispatcher of replica r is in Pool.Submit and the channel is full.
Blocked(r) == dpc[r] = "submit" /\ Len(jobs[r]) = 2 * cfg.workers

Shutdown == [stops |-> TRUE, slow |-> TRUE, drain |-> FALSE, replicas |-> 1,
             workers |-> NumWorkers, events |-> NumEvents, rate_limit |-> 0,
             answers |-> {Answer(200)}, direct |-> 0,
             until |-> StartTime + ShortHorizon]

StopInit == Start(Shutdown, NoHash, {}, 0)

\* main: the signal arrives, cancel().
Cancel(r) ==
    /\ Alive(r)
    /\ cfg.stops
    /\ r <= cfg.replicas
    /\ life[r].main = "serving"
    /\ life' = [life EXCEPT ![r].cancelled = TRUE, ![r].main = "cancelled"]
    /\ UNCHANGED <<cfg, fan, hub, match, handed, gate, hist, calls, now, fanned, queue, cb, rl, attempts,
                   dlq, jobs, dpc, dbatch, dcur, wpc, wjob, wloc, faults>>

\* Pool.Stop: close(p.jobs).
Close(r) ==
    /\ Alive(r)
    /\ life[r].main = "cancelled"
    /\ life' = [life EXCEPT ![r].closed = TRUE, ![r].main = "waiting"]
    /\ UNCHANGED <<cfg, fan, hub, match, handed, gate, hist, calls, now, fanned, queue, cb, rl, attempts,
                   dlq, jobs, dpc, dbatch, dcur, wpc, wjob, wloc, faults>>

\* Pool.Stop: p.wg.Wait() returns when every worker has called wg.Done().
WaitWorkers(r) ==
    /\ Alive(r)
    /\ life[r].main = "waiting"
    /\ \A w \in WorkersOf(r) : wpc[w] = "exited"
    /\ life' = [life EXCEPT ![r].main = "stopped"]
    /\ UNCHANGED <<cfg, fan, hub, match, handed, gate, hist, calls, now, fanned, queue, cb, rl, attempts,
                   dlq, jobs, dpc, dbatch, dcur, wpc, wjob, wloc, faults>>

\* Dispatcher.Start: the select takes ctx.Done() and Start returns.
DispatcherStop(r) ==
    /\ Alive(r)
    /\ r <= cfg.replicas
    /\ dpc[r] = "wait"
    /\ life[r].cancelled
    /\ dpc' = [dpc EXCEPT ![r] = "stopped"]
    /\ UNCHANGED <<cfg, fan, life, hub, match, handed, gate, hist, calls, now, fanned, queue, cb, rl,
                   attempts, dlq, jobs, dbatch, dcur, wpc, wjob, wloc, faults>>

StopNext ==
    \/ \E e \in Events : FanOut(e)
    \/ \E r \in Replicas : Poll(r)
    \/ \E r \in Replicas : Claim(r)
    \/ \E r \in Replicas : Submit(r)
    \/ \E r \in Replicas : DispatcherStop(r)
    \/ \E r \in Replicas : Cancel(r)
    \/ \E r \in Replicas : Close(r)
    \/ \E r \in Replicas : WaitWorkers(r)
    \/ \E w \in Workers : Receive(w)
    \/ \E w \in Workers : Exit(w)
    \/ \E w \in Workers : AllowRequest(w)
    \/ \E w \in Workers : Allow(w)
    \/ \E w \in Workers : Send(w)
    \/ \E w \in Workers : Answered(w)
    \/ \E w \in Workers : RecordSuccess(w)
    \/ \E w \in Workers : IncrFailures(w)
    \/ \E w \in Workers : scheduleRetry(w)
    \/ \E w \in Workers : recordAttempt(w)

StopSpec ==
    /\ StopInit
    /\ [][StopNext]_vars
    /\ \A r \in Replicas :
          /\ WF_vars(Poll(r)) /\ WF_vars(Claim(r)) /\ WF_vars(Submit(r))
          /\ WF_vars(DispatcherStop(r)) /\ WF_vars(Close(r)) /\ WF_vars(WaitWorkers(r))
    /\ \A w \in Workers :
          /\ WF_vars(Receive(w)) /\ WF_vars(Exit(w))
          /\ WF_vars(AllowRequest(w)) /\ WF_vars(Allow(w))
          /\ WF_vars(Send(w)) /\ WF_vars(Answered(w))
          /\ WF_vars(RecordSuccess(w)) /\ WF_vars(IncrFailures(w))
          /\ WF_vars(scheduleRetry(w)) /\ WF_vars(recordAttempt(w))

(***************************************************************************)
(* Properties of shutdown under StopSpec                                   *)
(***************************************************************************)
\* A job leaves the channel of replica r.
Taken(r) == jobs[r] # <<>> /\ jobs'[r] = Tail(jobs[r])

\* C21: a job the dispatcher has submitted to the pool is executed by Deliver
\* also after the cancellation: whenever a job leaves the channel a worker
\* starts Deliver with it, and when Pool.Stop has returned no job is left in
\* the channel.
C21_SubmittedJobsComplete ==
    /\ [][\A r \in Replicas :
             Taken(r) => \E w \in WorkersOf(r) :
                            /\ wpc[w] = "idle" /\ wpc'[w] = "allow"
                            /\ wjob'[w] = Head(jobs[r])]_vars
    /\ [](\A r \in Replicas : life[r].main = "stopped" => jobs[r] = <<>>)

\* httpClient.Do returns to worker w for a request that was in flight.
DoReturns(w) == wpc[w] = "inflight" /\ wpc'[w] # "inflight"

\* C22: what Do returns for a request in flight is what the endpoint answers
\* (or the HTTP timeout), also when the context was cancelled meanwhile.
C22_InFlightRequestNotAborted ==
    [][\A w \in Workers :
          DoReturns(w) =>
             [status |-> wloc'[w].status, err |-> wloc'[w].err] \in cfg.answers]_vars

\* C23: Pool.Stop returns only with the channel closed and every worker
\* exited, and once called it eventually returns.
C23_StopReturnsAfterWorkersExit ==
    /\ [](\A r \in Replicas :
             life[r].main = "stopped" =>
                life[r].closed /\ \A w \in WorkersOf(r) : wpc[w] = "exited")
    /\ \A r \in Replicas : (life[r].main = "cancelled") ~> (life[r].main = "stopped")

\* C36: once Pool.Stop has closed the channel the dispatcher is not in
\* Pool.Submit, and no send is made on the closed channel.
C36_NoSubmitOnClosedChannel ==
    \A r \in Replicas :
        /\ life[r].closed => dpc[r] # "submit"
        /\ ~life[r].panicked

\* The dispatcher of replica r has ended: Start returned, or the process died.
DispatcherEnded(r) == dpc[r] = "stopped" \/ ~Alive(r)

\* C25: once the context is cancelled the dispatcher fetches and removes
\* nothing more, every entry of the job queue stays with its score, and the
\* dispatcher's task ends (Start returns, unless the task is in Pool.Submit
\* when the channel is closed: then it ends with the process).
C25_DispatcherStopsQueueStays ==
    /\ [][\A r \in Replicas :
             (life[r].cancelled /\ r <= cfg.replicas) =>
                /\ \A m \in DOMAIN queue : m \in DOMAIN queue' /\ queue'[m] = queue[m]
                /\ dpc[r] = "wait" => dpc'[r] \in {"wait", "stopped"}
                /\ dpc[r] = "zrem" => dpc'[r] \in {"zrem", "wait"}]_vars
    /\ \A r \in Replicas :
          (life[r].cancelled /\ r <= cfg.replicas) ~> DispatcherEnded(r)

\* The dispatcher has returned after the cancellation and Pool.Stop too,
\* while a job still waits in the job queue.
C25_Witness ==
    /\ life[1].cancelled
    /\ dpc[1] = "stopped"
    /\ life[1].main = "stopped"
    /\ queue # <<>>

(***************************************************************************)
(* The circuit breaker used by a lone caller: each call runs from its      *)
(* first command to its last with no other command in between.             *)
(***************************************************************************)
Alone == [stops |-> FALSE, slow |-> FALSE, drain |-> FALSE, replicas |-> 0, workers |-> 0, events |-> 0, rate_limit |-> 0,
          answers |-> {}, direct |-> 0,
          until |-> StartTime + CBHorizon]

\* The hash left when a probe's HSet half-open lands after the RecordSuccess of
\* another delivery admitted during the same cooldown expiry.
ProbedHash ==
    HSetState(RecordSuccessCall(AfterFailures(failureThreshold, StartTime - cooldownPeriod * 1000)),
              StateHalfOpen)

CBInit == \E hash \in {NoHash, ProbedHash} : Start(Alone, hash, {}, 0)

Waits == {29999, 30000}

Called(op, before, after, allowed, state) ==
    LET call == [op |-> op, before |-> before, after |-> after, allowed |-> allowed,
                 state |-> state, at |-> now]
    IN [made |-> calls.made + 1,
        streak |-> IF op = "record_success" THEN 0
                   ELSE IF op = "record_failure" /\ calls.streak >= 0 THEN calls.streak + 1
                   ELSE calls.streak,
        recent |-> IF calls.recent = <<>> THEN <<call>>
                   ELSE <<calls.recent[Len(calls.recent)], call>>]

CallAllowRequest(s) ==
    /\ calls.made < MaxCalls
    /\ cb' = [cb EXCEPT ![cbKey(s)] = AllowRequestCall(@, now)]
    /\ calls' = Called("allow_request", cb[cbKey(s)], cb'[cbKey(s)],
                       AllowDecision(cb[cbKey(s)], now) # "refuse", AllowState(cb[cbKey(s)], now))
    /\ UNCHANGED <<cfg, fan, life, hub, match, handed, gate, hist, now, fanned, queue, rl, attempts, dlq, jobs, dpc, dbatch, dcur,
                   wpc, wjob, wloc, faults>>

CallRecordSuccess(s) ==
    /\ calls.made < MaxCalls
    /\ cb' = [cb EXCEPT ![cbKey(s)] = RecordSuccessCall(@)]
    /\ calls' = Called("record_success", cb[cbKey(s)], cb'[cbKey(s)], TRUE, "")
    /\ UNCHANGED <<cfg, fan, life, hub, match, handed, gate, hist, now, fanned, queue, rl, attempts, dlq, jobs, dpc, dbatch, dcur,
                   wpc, wjob, wloc, faults>>

CallRecordFailure(s) ==
    /\ calls.made < MaxCalls
    /\ cb' = [cb EXCEPT ![cbKey(s)] = RecordFailureCall(@, now)]
    /\ calls' = Called("record_failure", cb[cbKey(s)], cb'[cbKey(s)], TRUE, "")
    /\ UNCHANGED <<cfg, fan, life, hub, match, handed, gate, hist, now, fanned, queue, rl, attempts, dlq, jobs, dpc, dbatch, dcur,
                   wpc, wjob, wloc, faults>>

Wait ==
    /\ \E d \in Waits : now + d <= cfg.until /\ now' = now + d
    /\ UNCHANGED <<cfg, fan, life, hub, match, handed, gate, hist, fanned, queue, cb, rl, attempts, dlq, jobs, dpc, dbatch, dcur,
                   wpc, wjob, wloc, faults, calls>>

CBNext ==
    \/ Wait
    \/ \E s \in Subscribers : CallAllowRequest(s)
    \/ \E s \in Subscribers : CallRecordSuccess(s)
    \/ \E s \in Subscribers : CallRecordFailure(s)

CBSpec == CBInit /\ [][CBNext]_vars

(***************************************************************************)
(* Properties of the circuit breaker under CBSpec                          *)
(***************************************************************************)
LastCall == calls.recent[Len(calls.recent)]
PrevCall == calls.recent[1]
Did(op) == calls.recent # <<>> /\ LastCall.op = op
DidAfter(op, before) == Len(calls.recent) = 2 /\ PrevCall.op = before /\ LastCall.op = op

\* Milliseconds between a call and the last_failed_at the call found stored.
SinceLastFailed(call) == call.at - call.before.last_failed_at * 1000

\* C6: counting from a closed circuit with no failure, after n record_failure
\* calls with no record_success in between the stored state is open exactly
\* when n >= 5; the allow_request that directly follows the n-th failure
\* returns closed and admits when n < 5, returns open and refuses when n >= 5.
C6_OpenAtFifthFailure ==
    \A s \in Subscribers :
        /\ (Did("record_failure") /\ calls.streak >= 0) =>
              ((cb[cbKey(s)].state = StateOpen) <=> (calls.streak >= 5))
        /\ (DidAfter("allow_request", "record_failure") /\ calls.streak >= 0
                /\ LastCall.at = PrevCall.at) =>
              IF calls.streak < 5
              THEN LastCall.allowed /\ LastCall.state = StateClosed
              ELSE ~LastCall.allowed /\ LastCall.state = StateOpen

C6_Witness ==
    /\ DidAfter("allow_request", "record_failure")
    /\ calls.streak = 5
    /\ LastCall.at = PrevCall.at
    /\ ~LastCall.allowed

\* C7: after record_success the stored state is closed and the stored failure
\* count is 0 whatever they were before; the failure count is never negative.
C7_SuccessResets ==
    \A s \in Subscribers :
        /\ Did("record_success") =>
              cb[cbKey(s)].present /\ cb[cbKey(s)].state = StateClosed /\ cb[cbKey(s)].failures = 0
        /\ cb[cbKey(s)].failures >= 0

C7_Witness ==
    /\ Did("record_success")
    /\ LastCall.before.state = StateOpen
    /\ LastCall.before.failures >= 5

\* C8: allow_request on an open circuit refuses, and leaves the hash as it is,
\* while fewer than 30 s have passed since last_failed_at; once 30 s have
\* passed it stores half-open and admits.
C8_CooldownThenProbe ==
    (Did("allow_request") /\ LastCall.before.state = StateOpen) =>
        IF SinceLastFailed(LastCall) < 30000
        THEN /\ ~LastCall.allowed
             /\ LastCall.state = StateOpen
             /\ LastCall.after = LastCall.before
        ELSE /\ LastCall.allowed
             /\ LastCall.state = StateHalfOpen
             /\ LastCall.after.state = StateHalfOpen

C8_Witness ==
    /\ DidAfter("allow_request", "allow_request")
    /\ PrevCall.before.state = StateOpen
    /\ ~PrevCall.allowed
    /\ SinceLastFailed(PrevCall) = 29999
    /\ LastCall.before.state = StateOpen
    /\ LastCall.allowed
    /\ LastCall.after.state = StateHalfOpen

\* C9: in half-open one record_failure stores open whatever the failure count
\* is, and the allow_request that follows before the cooldown has elapsed
\* refuses.
C9_ProbeFailureReopens ==
    /\ (Did("record_failure") /\ LastCall.before.state = StateHalfOpen) =>
          LastCall.after.state = StateOpen
    /\ (DidAfter("allow_request", "record_failure")
           /\ PrevCall.before.state = StateHalfOpen
           /\ SinceLastFailed(LastCall) < 30000) =>
          ~LastCall.allowed /\ LastCall.state = StateOpen

C9_Witness ==
    /\ DidAfter("allow_request", "record_failure")
    /\ PrevCall.before.state = StateHalfOpen
    /\ PrevCall.after.failures < 5
    /\ ~LastCall.allowed

\* C33: while the circuit is half-open one test request is admitted: an
\* allow_request that follows an admission made with the circuit half-open,
\* with no record_success or record_failure in between, refuses.
C33_OneProbeWhileHalfOpen ==
    (DidAfter("allow_request", "allow_request")
        /\ PrevCall.allowed
        /\ PrevCall.after.state = StateHalfOpen) =>
       ~LastCall.allowed

(***************************************************************************)
(* Admission used directly, as the tests of the engine package do: callers *)
(* of two subscribers make circuit-breaker calls (each from its first      *)
(* command to its last) and RateLimiter.Allow calls.  Allow reads the      *)
(* clock and builds its member, then runs the script: other calls and the  *)
(* clock may move between the two.                                         *)
(***************************************************************************)
GateSubscribers == {"A", "B"}
\* Deliveries are made, and their outcomes recorded, for subscriber A only;
\* for subscriber B admission is asked and nothing else.
Delivered == {"A"}

Gated(limitA) == [replicas |-> 1, workers |-> NumWorkers, events |-> 0, rate_limit |-> 0,
                  answers |-> {}, direct |-> 0,
                  limit |-> [s \in GateSubscribers |-> IF s = "A" THEN limitA ELSE 1],
                  until |-> StartTime + MaxGateWaits * window]

\* The hash of subscriber A left by earlier deliveries: none, or four failures.
GateHashes == {NoHash, AfterFailures(failureThreshold - 1, StartTime)}

GateInit ==
    \E limitA \in 0 .. MaxLimit, hash \in GateHashes :
        /\ Idle(Gated(limitA), 0)
        /\ match = NoMatch
        /\ fan = NoFan
        /\ cb = [k \in {cbKey(s) : s \in GateSubscribers} |->
                    IF k = cbKey("A") THEN hash ELSE NoHash]
        /\ rl = [k \in {rlKey(s) : s \in GateSubscribers} |-> {}]
        /\ calls = [made |-> 0, streak |-> -1, recent |-> <<>>]
        /\ hist = [made |-> 0,
                   waits |-> 0,
                   last |-> [op |-> "", subscriber_id |-> ""],
                   admitted |-> [s \in GateSubscribers |-> <<>>],
                   solo |-> [s \in GateSubscribers |->
                               [cb |-> IF s = "A" THEN hash ELSE NoHash, rl |-> {}]]]

GateCallers == {w \in Workers : w[1] <= cfg.replicas /\ w[2] <= cfg.workers}

\* The clock moves to the last instant at which a stored admission is still
\* counted by the script, or to the instant from which it is evicted.
GateDeadlines ==
    UNION {{x[1] + window - 1, x[1] + window} : x \in UNION {rl[rlKey(s)] : s \in GateSubscribers}}

GateWait ==
    /\ hist.waits < MaxGateWaits
    /\ \E t \in GateDeadlines : t > now /\ t <= cfg.until /\ now' = t
    /\ hist' = [hist EXCEPT !.waits = @ + 1]
    /\ UNCHANGED <<cfg, fan, life, hub, match, handed, gate, fanned, queue, cb, rl, attempts, dlq, jobs, dpc, dbatch, dcur,
                   wpc, wjob, wloc, faults, calls>>

\* RateLimiter.Allow up to the script: the bypass, or the clock and the member.
AllowRead(w, s) ==
    /\ w \in GateCallers
    /\ gate[w] = NoCall
    /\ hist.made < MaxGateCalls
    /\ LET limit == cfg.limit[s]
       IN IF Bypass(limit)
          THEN /\ hist' = [hist EXCEPT !.made = @ + 1,
                                       !.last = [op |-> "allow", subscriber_id |-> s,
                                                 allowed |-> TRUE, alone |-> TRUE, ran |-> FALSE],
                                       !.admitted[s] = Append(@, UnixMilli(now))]
               /\ UNCHANGED gate
          ELSE /\ \E nonce \in NonceSet :
                      gate' = [gate EXCEPT ![w] = [subscriber_id |-> s, now |-> UnixMilli(now),
                                                  nonce |-> nonce, limit |-> limit]]
               /\ hist' = [hist EXCEPT !.made = @ + 1]
    /\ UNCHANGED <<cfg, fan, life, hub, match, handed, now, fanned, queue, cb, rl, attempts, dlq, jobs, dpc, dbatch, dcur,
                   wpc, wjob, wloc, faults, calls>>

\* RateLimiter.Allow: the script runs and Allow returns its result.
AllowScript(w) ==
    /\ gate[w] # NoCall
    /\ LET c == gate[w]
           s == c.subscriber_id
       IN /\ rl' = [rl EXCEPT ![rlKey(s)] = ScriptResult(@, c.now, c.limit, c.nonce)]
          /\ hist' = [hist EXCEPT
                         !.last = [op |-> "allow", subscriber_id |-> s,
                                   allowed |-> ScriptAdmits(rl[rlKey(s)], c.now, c.limit),
                                   alone |-> ScriptAdmits(hist.solo[s].rl, c.now, c.limit),
                                   ran |-> TRUE],
                         !.admitted[s] = IF ScriptAdmits(rl[rlKey(s)], c.now, c.limit)
                                         THEN Append(@, c.now) ELSE @,
                         !.solo[s].rl = ScriptResult(@, c.now, c.limit, c.nonce)]
    /\ gate' = [gate EXCEPT ![w] = NoCall]
    /\ UNCHANGED <<cfg, fan, life, hub, match, handed, now, fanned, queue, cb, attempts, dlq, jobs, dpc, dbatch, dcur,
                   wpc, wjob, wloc, faults, calls>>

GateAllowRequest(s) ==
    /\ hist.made < MaxGateCalls
    /\ cb' = [cb EXCEPT ![cbKey(s)] = AllowRequestCall(@, now)]
    /\ hist' = [hist EXCEPT
                   !.made = @ + 1,
                   !.last = [op |-> "allow_request", subscriber_id |-> s,
                             allowed |-> AllowDecision(cb[cbKey(s)], now) # "refuse",
                             alone |-> AllowDecision(hist.solo[s].cb, now) # "refuse",
                             ran |-> TRUE],
                   !.solo[s].cb = AllowRequestCall(@, now)]
    /\ UNCHANGED <<cfg, fan, life, hub, match, handed, gate, now, fanned, queue, rl, attempts, dlq, jobs, dpc, dbatch, dcur,
                   wpc, wjob, wloc, faults, calls>>

GateRecordSuccess(s) ==
    /\ hist.made < MaxGateCalls
    /\ cb' = [cb EXCEPT ![cbKey(s)] = RecordSuccessCall(@)]
    /\ hist' = [hist EXCEPT
                   !.made = @ + 1,
                   !.last = [op |-> "record_success", subscriber_id |-> s,
                             allowed |-> TRUE, alone |-> TRUE, ran |-> TRUE],
                   !.solo[s].cb = RecordSuccessCall(@)]
    /\ UNCHANGED <<cfg, fan, life, hub, match, handed, gate, now, fanned, queue, rl, attempts, dlq, jobs, dpc, dbatch, dcur,
                   wpc, wjob, wloc, faults, calls>>

GateRecordFailure(s) ==
    /\ hist.made < MaxGateCalls
    /\ cb' = [cb EXCEPT ![cbKey(s)] = RecordFailureCall(@, now)]
    /\ hist' = [hist EXCEPT
                   !.made = @ + 1,
                   !.last = [op |-> "record_failure", subscriber_id |-> s,
                             allowed |-> TRUE, alone |-> TRUE, ran |-> TRUE],
                   !.solo[s].cb = RecordFailureCall(@, now)]
    /\ UNCHANGED <<cfg, fan, life, hub, match, handed, gate, now, fanned, queue, rl, attempts, dlq, jobs, dpc, dbatch, dcur,
                   wpc, wjob, wloc, faults, calls>>

GateNext ==
    \/ GateWait
    \/ \E w \in Workers, s \in GateSubscribers : AllowRead(w, s)
    \/ \E w \in Workers : AllowScript(w)
    \/ \E s \in GateSubscribers : GateAllowRequest(s)
    \/ \E s \in Delivered : GateRecordSuccess(s)
    \/ \E s \in Delivered : GateRecordFailure(s)

GateSpec == GateInit /\ [][GateNext]_vars

(***************************************************************************)
(* Properties of admission under GateSpec                                  *)
(***************************************************************************)
\* The admitted calls of subscriber s whose clock reading lies in the second
\* that ends with the reading of its i-th admitted call.
AdmittedInWindow(s, i) ==
    {j \in DOMAIN hist.admitted[s] :
        /\ hist.admitted[s][j] > hist.admitted[s][i] - window
        /\ hist.admitted[s][j] <= hist.admitted[s][i]}

\* C11: for a subscriber with limit L > 0 no trailing 1-second window holds
\* more than L admitted Allow calls, however the calls of the callers interleave.
C11_AtMostLimitPerWindow ==
    \A s \in GateSubscribers :
        cfg.limit[s] > 0 =>
            \A i \in DOMAIN hist.admitted[s] :
                Cardinality(AdmittedInWindow(s, i)) <= cfg.limit[s]

\* C12: the breaker hash and the limiter set of a subscriber are what its own
\* calls alone would have left, and every call returns what it would have
\* returned had the calls for the other subscriber not been made.
C12_SubscribersIsolated ==
    /\ \A s \in GateSubscribers :
          /\ cb[cbKey(s)] = hist.solo[s].cb
          /\ rl[rlKey(s)] = hist.solo[s].rl
    /\ hist.last.op # "" => hist.last.allowed = hist.last.alone

\* B is admitted by the limiter while A's circuit is open and A's window full.
C12_Witness ==
    /\ hist.last.op = "allow"
    /\ hist.last.subscriber_id = "B"
    /\ hist.last.ran
    /\ hist.last.allowed
    /\ cb[cbKey("A")].state = StateOpen
    /\ cfg.limit["A"] > 0
    /\ ~ScriptAdmits(rl[rlKey("A")], now, cfg.limit["A"])

\* C13: with limit 0 every Allow call returns true without running the
\* script, and the subscriber's limiter key is never written.
C13_ZeroLimitBypasses ==
    \A s \in GateSubscribers :
        cfg.limit[s] = 0 =>
            /\ rl[rlKey(s)] = {}
            /\ \A w \in Workers : gate[w].subscriber_id # s
            /\ (hist.last.op = "allow" /\ hist.last.subscriber_id = s) =>
                  hist.last.allowed /\ ~hist.last.ran

C13_Witness ==
    /\ cfg.limit["A"] = 0
    /\ hist.last.op = "allow"
    /\ hist.last.subscriber_id = "A"
    /\ Len(hist.admitted["A"]) = MaxGateCalls

(***************************************************************************)
(* The resolver asked about one subscription: the table holds one active   *)
(* subscription of subscriber A, with any pattern, and any event type is   *)
(* looked up.                                                              *)
(***************************************************************************)
Strings(chars, n) == UNION {[1 .. k -> chars] : k \in 1 .. n}

Patterns ==
    Strings({"a", ".", "*", "_"}, MaxPatternLen)
    \cup {<<"*">>, <<"order", ".", "*">>, <<"payment", ".", "*">>,
          <<"payment", ".", "completed">>}

EventTypes ==
    Strings({"a", "b", "."}, MaxTypeLen)
    \cup {<<"order", ".", "created">>, <<"payment", ".", "created">>,
          <<"payment", ".", "completed">>}

MatchInit ==
    /\ Preset(Alone, NoHash, {}, 0)
    /\ fan = NoFan
    /\ \E pattern \in Patterns, eventType \in EventTypes :
          match = [pattern |-> pattern, event_type |-> eventType,
                   asked |-> FALSE, found |-> FALSE]

Resolve ==
    /\ ~match.asked
    /\ LET table == {[subscriber_id |-> "A", event_type |-> match.pattern, is_active |-> TRUE]}
       IN match' = [match EXCEPT !.asked = TRUE,
                                 !.found = "A" \in FindMatching(table, match.event_type)]
    /\ UNCHANGED <<cfg, fan, life, hub, now, fanned, queue, cb, rl, attempts, dlq, jobs, dpc, dbatch,
                   dcur, wpc, wjob, wloc, faults, calls, handed, gate, hist>>

MatchNext == Resolve

MatchSpec == MatchInit /\ [][MatchNext]_vars

\* The pattern ends in ".*" and the type begins with the pattern's prefix
\* followed by a dot.
PrefixThenDot(pattern, eventType) ==
    /\ Len(pattern) >= 2
    /\ pattern[Len(pattern) - 1] = "." /\ pattern[Len(pattern)] = "*"
    /\ Len(eventType) >= Len(pattern) - 1
    /\ SubSeq(eventType, 1, Len(pattern) - 1) = SubSeq(pattern, 1, Len(pattern) - 1)

\* C30: a subscription pattern matches an event type exactly when the pattern
\* equals the type, or is "*", or ends in ".*" with the type beginning with
\* the pattern's prefix followed by a dot.
C30_MatchesExactlyWhen ==
    match.asked =>
        (match.found <=> \/ match.pattern = match.event_type
                         \/ match.pattern = <<"*">>
                         \/ PrefixThenDot(match.pattern, match.event_type))

(***************************************************************************)
(* An ingestion request: event 1 is posted to a deployment whose           *)
(* subscribers table holds two subscribers, each active or not, with up to *)
(* MaxSubscriptions subscriptions each, active or not.  Each store call    *)
(* of the request may fail; a failed pipeline may have run a part of its   *)
(* commands.                                                               *)
(***************************************************************************)
Tenants == {"A", "B"}

FanPatterns ==
    {<<"order", ".", "created">>, <<"order", ".", "*">>, <<"*">>, <<"payment", ".", "*">>}

SubscriptionsOf(s) ==
    {[subscriber_id |-> s, event_type |-> p, is_active |-> a] :
        p \in FanPatterns, a \in BOOLEAN}

SubscriberTables ==
    {{[SubscriberRow(s, 0) EXCEPT !.is_active = active[s]] : s \in Tenants} :
        active \in [Tenants -> BOOLEAN]}

SubscriptionTables ==
    {S \in SUBSET (UNION {SubscriptionsOf(s) : s \in Tenants}) :
        /\ \A s \in Tenants :
              Cardinality({sub \in S : sub.subscriber_id = s}) <= MaxSubscriptions
        \* UNIQUE(subscriber_id, event_type)
        /\ \A x, y \in S :
              (x.subscriber_id = y.subscriber_id /\ x.event_type = y.event_type) => x = y}

FanInit ==
    /\ Preset(Alone, NoHash, {}, 0)
    /\ match = NoMatch
    /\ \E subscribers \in SubscriberTables, subscriptions \in SubscriptionTables :
          fan = [NoFan EXCEPT !.subscribers = subscribers,
                              !.subscriptions = subscriptions]

\* EventHandler.Create: the event is inserted, or the request ends with 500.
CreateEvent ==
    /\ fan.step = "posted"
    /\ \E ok \in BOOLEAN :
          fan' = [fan EXCEPT !.step = IF ok THEN "stored" ELSE "answered",
                             !.events = IF ok THEN {Event(1).id} ELSE {},
                             !.status = IF ok THEN 0 ELSE 500]
    /\ UNCHANGED <<cfg, life, hub, match, now, fanned, queue, cb, rl, attempts, dlq, jobs, dpc,
                   dbatch, dcur, wpc, wjob, wloc, faults, calls, handed, gate, hist>>

\* EventHandler.Create: FanOut for the stored event, then the response.
FanOutCall ==
    /\ fan.step = "stored"
    /\ LET subscribers == FindMatchingIn(fan.subscribers, fan.subscriptions,
                                         Event(1).event_type)
       IN \E found \in BOOLEAN, queued \in BOOLEAN,
             applied \in SUBSET Batch(Event(1), subscribers) :
             /\ (~found \/ subscribers = {}) => queued
             /\ (~found \/ queued) => applied = {}
             /\ LET res == FanOutResult(Event(1), subscribers, found, queued, applied,
                                        queue, now)
                IN /\ queue' = res.queue
                   /\ fan' = [fan EXCEPT !.step = "answered",
                                         !.failed = IF ~found THEN "query"
                                                    ELSE IF ~queued THEN "exec" ELSE "none",
                                         !.returned = TRUE,
                                         !.count = res.count,
                                         !.err = res.err,
                                         !.status = 201,
                                         !.deliveries_queued =
                                             IF res.err THEN 0 ELSE res.count]
    /\ UNCHANGED <<cfg, life, hub, match, now, fanned, cb, rl, attempts, dlq, jobs, dpc,
                   dbatch, dcur, wpc, wjob, wloc, faults, calls, handed, gate, hist>>

FanNext == CreateEvent \/ FanOutCall

FanSpec == FanInit /\ [][FanNext]_vars

\* The subscribers the claim names for an event type: active, with at least
\* one active subscription whose pattern matches the type.
Entitled(eventType) ==
    {s \in fan.subscribers :
        /\ s.is_active
        /\ \E sub \in fan.subscriptions :
              sub.subscriber_id = s.id /\ sub.is_active
                 /\ PatternMatches(sub.event_type, eventType)}

\* The jobs in the job queue.
Queued == {Unmarshal(m) : m \in DOMAIN queue}

\* C31: when FanOut returns without error the job queue holds, for each
\* active subscriber with at least one active matching subscription, exactly
\* one job (attempt 1, score = now, the subscriber's endpoint URL and secret
\* as they are in the table), no other job, and the count returned is the
\* number of jobs in the queue.
C31_OneJobPerMatchingSubscriber ==
    (fan.returned /\ ~fan.err) =>
        /\ \A s \in Entitled(Event(1).event_type) :
              Cardinality({m \in DOMAIN queue :
                              /\ Unmarshal(m).subscriber_id = s.id
                              /\ Unmarshal(m).event_id = Event(1).id
                              /\ Unmarshal(m).attempt = 1
                              /\ Unmarshal(m).endpoint_url = s.endpoint_url
                              /\ Unmarshal(m).secret_key = s.secret_key
                              /\ queue[m] = UnixMicro(now)}) = 1
        /\ \A job \in Queued :
              \E s \in Entitled(Event(1).event_type) : job.subscriber_id = s.id
        /\ Cardinality(DOMAIN queue) = Cardinality(Entitled(Event(1).event_type))
        /\ fan.count = Cardinality(DOMAIN queue)

\* FanOut has returned 1 for a table in which subscriber A is active with two
\* active matching subscriptions, and subscriber B is inactive, or has only an
\* inactive matching subscription.
C31_Witness ==
    /\ fan.returned /\ ~fan.err
    /\ fan.count = 1
    /\ Cardinality({sub \in fan.subscriptions :
                       /\ sub.subscriber_id = "A" /\ sub.is_active
                       /\ PatternMatches(sub.event_type, Event(1).event_type)}) = 2
    /\ \E sub \in fan.subscriptions :
          /\ sub.subscriber_id = "B"
          /\ PatternMatches(sub.event_type, Event(1).event_type)
          /\ \/ ~sub.is_active
             \/ \E s \in fan.subscribers : s.id = "B" /\ ~s.is_active
    /\ \A job \in Queued : job.subscriber_id = "A"

\* C32: a failed query makes FanOut return 0 and an error with nothing
\* enqueued; a failed Exec makes it return 0 and an error for the whole batch;
\* either way the event stays in the events table.
C32_FailureReportedEventKept ==
    fan.returned =>
        /\ fan.failed = "query" => (fan.err /\ fan.count = 0 /\ queue = <<>>)
        /\ fan.failed = "exec" => (fan.err /\ fan.count = 0)
        /\ fan.failed = "none" => ~fan.err
        /\ fan.events = {Event(1).id}

\* Exec has failed on a batch of two jobs after one of its commands ran.
C32_Witness ==
    /\ fan.returned
    /\ fan.failed = "exec"
    /\ Cardinality(Entitled(Event(1).event_type)) = 2
    /\ Cardinality(DOMAIN queue) = 1
    /\ fan.events = {Event(1).id}

====
